---- MODULE Spec2Model ----
(***************************************************************************)
(* A model of the incremental ingestion and reconciliation engine of       *)
(* smash_database (scripts/utils.py, scripts/fetch/download.py,            *)
(* scripts/fix/fill_missing_events.py, scripts/check_and_fill_missing.py,  *)
(* scripts/fix/backfill_events.py).                                        *)
(*                                                                         *)
(* The state machines of this module:                                      *)
(*   SpecFetch  the Retry Gate and the Paginator: one call of              *)
(*              fetch_all_nodes against a remote that answers each request *)
(*              with a transport failure or with some JSON envelope.       *)
(*   Spec       the batch tools (download, repair, backfill) running one   *)
(*              after the other over the same durable files.               *)
(* Smaller machines follow them, each over variables of its own:           *)
(*   SpecWrite  one full rewrite of a log by write_jsonl, line by line.    *)
(*   SpecUsers  the users map and users.jsonl under extend_user_info.      *)
(*   SpecNames  normalize_name applied to names, and to its own result.    *)
(*   SpecMatches  write_matches applied to the set nodes of an event.      *)
(*   SpecReconcile  one run of check_and_fill_missing.main: the check of   *)
(*              the target list against the event directories, the repair  *)
(*              batch, the re-check and the exit code.                     *)
(*   SpecValidate  validate_event_dir of fix/validate_data.py over one     *)
(*              event directory, and main with its exit code.              *)
(*   SpecClean  the store-consistency tools over tournaments.jsonl:        *)
(*              fix_missing_tournaments.py, check_events_in_tournaments.py *)
(***************************************************************************)
EXTENDS Integers, Sequences, FiniteSets, TLC

(***************************************************************************)
(* Bounds of the model.                                                    *)
(***************************************************************************)
\* stands for __max_retries (utils.py:162, set by set_retry_parameters)
MaxRetries == 2
\* the remote is asked for at most this many pages in one pagination
MaxPages == 3
\* stands for per_page: the largest number of nodes the remote puts on a page
PerPage == 2

VARIABLES
    \* ---- SpecFetch: fetch_all_nodes / fetch_data_with_retries ----
    f_pc,           \* "request" | "returned" | "FetchError" | "TypeError" | "Exhausted"
    page_var,       \* variables["page"]
    attempt,        \* the loop variable of fetch_data_with_retries
    all_nodes,      \* the accumulator of fetch_all_nodes
    response_data,  \* the reply returned by the last completed call
    call_done,      \* TRUE once the current fetch_data_with_retries call returned
    outcomes,       \* history: the outcome kinds of the attempts of the current call
    requests,       \* history: the page number of every request posted
    served,         \* history: the pages the remote answered, in order
    sent,           \* history: what the remote sent back on the latest request
    \* ---- Spec: the durable files ----
    done_file,          \* done.csv: the tournament ids written by write_done_tournaments
    done_events_file,   \* done_events.csv: the event ids written by write_done_event
    tournaments_file,   \* tournaments.jsonl: one tournament record per line
    event_files,        \* per event directory, the artifact files present in it
    \* ---- Spec: the running process ----
    mem,                \* the tool that runs, its position and its in-memory state
    \* ---- Spec: history ----
    runs,               \* the number of tool runs started so far
    last_exit,          \* how the latest run ended: the tool, the cause, the position
    note,               \* what the latest step met: a NoPhaseError, an event already listed
    new_ingested        \* the events process_event ingested into a tournament new to the store

fvars == <<f_pc, page_var, attempt, all_nodes, response_data, call_done,
           outcomes, requests, served, sent>>

files == <<done_file, done_events_file, tournaments_file, event_files>>

hist == <<runs, last_exit, note, new_ingested>>

svars == <<files, mem, hist>>

VARIABLES
    \* ---- SpecWrite: one call of write_jsonl ----
    w_pc,       \* "start" | "writing" | "closed" | "killed" ("idle" outside SpecWrite)
    w_file,     \* the lines of the file at file_path
    w_data,     \* the argument data: the records to write
    w_i,        \* the number of records the for loop has written
    w_old       \* history: the lines of the file when write_jsonl was called

wvars == <<w_pc, w_file, w_data, w_i, w_old>>

WriteIdle == w_pc = "idle" /\ w_file = <<>> /\ w_data = <<>> /\ w_i = 0 /\ w_old = <<>>

VARIABLES
    \* ---- SpecUsers: extend_user_info over the users map and users.jsonl ----
    users,          \* the in-memory dict users: user_id -> record
    users_file,     \* users.jsonl: one user record per line
    u_batch,        \* history: the (user, player) pairs of the latest call
    u_before,       \* history: users when the latest call began
    u_file_before   \* history: users.jsonl when the latest call began

uvars == <<users, users_file, u_batch, u_before, u_file_before>>

UsersIdle ==
    /\ users = <<>> /\ users_file = <<>> /\ u_batch = <<>>
    /\ u_before = <<>> /\ u_file_before = <<>>

VARIABLES
    \* ---- SpecNames: normalize_name ----
    n_pc,           \* "in" | "once" | "twice" ("idle" outside SpecNames)
    n_in,           \* a name, as the sequence of its characters
    n_other,        \* a second name
    n_once,         \* normalize_name(n_in)
    n_other_once,   \* normalize_name(n_other)
    n_twice         \* normalize_name(n_once)

nvars == <<n_pc, n_in, n_other, n_once, n_other_once, n_twice>>

NamesIdle ==
    /\ n_pc = "idle" /\ n_in = <<>> /\ n_other = <<>>
    /\ n_once = <<>> /\ n_other_once = <<>> /\ n_twice = <<>>

VARIABLES
    \* ---- SpecMatches: write_matches ----
    m_pc,           \* "fetched" | "written" ("idle" outside SpecMatches)
    m_nodes,        \* the argument all_nodes: the set nodes of the event
    matches_json    \* the "data" list of matches.json

mvars == <<m_pc, m_nodes, matches_json>>

MatchesIdle == m_pc = "idle" /\ m_nodes = <<>> /\ matches_json = <<>>

VARIABLES
    \* ---- SpecReconcile: check_and_fill_missing.main ----
    r_pc,           \* "start" | "fill" | "recheck" | "exited" ("idle" outside)
    target_events,  \* the targetEvents of JJPREvents.json
    tournament_dirs,\* the names of the tournament directories under events_root
    r_args,         \* skip_fill, and whether jjpr_json and events_root exist
    missing_first,  \* the result of the first find_missing_events
    missing_after,  \* the result of the re-check
    r_next,         \* the index in missing_first of the entry to repair next
    r_counts,       \* processed and failed of download_missing_events
    r_exit          \* the exit code, and how the run ended

rvars == <<r_pc, target_events, tournament_dirs, r_args, missing_first, missing_after,
           r_next, r_counts, r_exit>>

NotExited == [code |-> -1, by |-> "running"]

ReconcileIdle ==
    /\ r_pc = "idle" /\ target_events = <<>> /\ tournament_dirs = {}
    /\ r_args = [skip_fill |-> FALSE, inputs_exist |-> TRUE]
    /\ missing_first = <<>> /\ missing_after = <<>> /\ r_next = 0
    /\ r_counts = [processed |-> 0, failed |-> 0]
    /\ r_exit = NotExited

VARIABLES
    \* ---- SpecValidate: validate_event_dir and main of validate_data.py ----
    v_pc,           \* "start" | "returned" | "raised" | "exited" ("idle" outside)
    event_dir,      \* the four artifact files of the event directory
    v_args,         \* --strict, and whether events_root and tournaments_file exist
    v_errors,       \* the list errors
    v_warnings,     \* the list warnings
    v_exit          \* the exit code, and how the run ended

vvars == <<v_pc, event_dir, v_args, v_errors, v_warnings, v_exit>>

ValidateIdle ==
    /\ v_pc = "idle" /\ event_dir = <<>>
    /\ v_args = [strict |-> FALSE, events_root_exists |-> TRUE, tournaments_file_exists |-> TRUE]
    /\ v_errors = <<>> /\ v_warnings = <<>>
    /\ v_exit = NotExited

VARIABLES
    \* ---- SpecClean: fix_missing_tournaments.py and check_events_in_tournaments.py ----
    c_pc,           \* "start" | "done" ("idle" outside SpecClean)
    c_tool,         \* the tool that ran: "clean" | "check" ("none" before)
    c_file,         \* tournaments.jsonl: one tournament record per line
    c_disk,         \* the event directories, by path
    c_args,         \* --dry-run, --apply, and whether --token is given
    c_before,       \* history: tournaments.jsonl when the tool started
    c_result,       \* the list cleaned, or the list tournaments after the additions
    c_report,       \* the lines the tool printed about its changes
    c_wrote         \* history: the tool reached its write of tournaments.jsonl

cvars == <<c_pc, c_tool, c_file, c_disk, c_args, c_before, c_result, c_report, c_wrote>>

CleanIdle ==
    /\ c_pc = "idle" /\ c_tool = "none" /\ c_file = <<>> /\ c_disk = <<>>
    /\ c_args = [dry_run |-> FALSE, apply |-> FALSE, token |-> FALSE]
    /\ c_before = <<>> /\ c_result = <<>> /\ c_report = <<>> /\ c_wrote = FALSE

VARIABLES
    \* ---- SpecRefresh: main of fetch/refresh_users.py ----
    g_pc,           \* "start" | "loop" | "done" ("idle" outside SpecRefresh)
    g_file,         \* users.jsonl as the run finds it
    g_args,         \* the command line
    g_cursor,       \* the cursor file
    g_checkpoint,   \* the checkpoint file
    g_users,        \* users: the dict read, by user_id
    g_checkpoint_records, \* checkpoint_records
    g_processed,    \* processed_ids
    g_targets,      \* target_user_ids not yet processed
    g_loop,         \* the loop variables of the user at hand
    g_failures,     \* failures
    g_missing,      \* missing_users
    g_log,          \* history: the requests of the run, with what the remote answered
    g_out,          \* the output file
    g_wrote,        \* history: the run reached its write of the output file
    g_runs,         \* history: the runs begun
    g_windows       \* history: target_user_ids of every run begun

gvars == <<g_pc, g_file, g_args, g_cursor, g_checkpoint, g_users, g_checkpoint_records,
           g_processed, g_targets, g_loop, g_failures, g_missing, g_log, g_out, g_wrote,
           g_runs, g_windows>>

NoRecord == [user_id |-> 0, player_id |-> 0, fields |-> "None", version |-> "none"]
NoLoop == [user_attempt |-> 0, success |-> FALSE, broke |-> FALSE,
           refreshed_record |-> NoRecord, is_record |-> TRUE,
           attempt |-> 0, in_call |-> FALSE,
           consecutive_rate_limits |-> 0, slept |-> 0]
NoCursor == [exists |-> FALSE, valid |-> FALSE, value |-> 0]

RefreshIdle ==
    /\ g_pc = "idle" /\ g_file = <<>>
    /\ g_args = [user_retries |-> 0, max_retries |-> 0, retry_delay |-> 0, sleep |-> 0,
                 max_users |-> 0, cursor_path |-> FALSE, checkpoint_path |-> FALSE,
                 force_refresh |-> FALSE]
    /\ g_cursor = NoCursor /\ g_checkpoint = <<>>
    /\ g_users = <<>> /\ g_checkpoint_records = <<>> /\ g_processed = {}
    /\ g_targets = <<>> /\ g_loop = NoLoop
    /\ g_failures = {} /\ g_missing = {} /\ g_log = <<>>
    /\ g_out = <<>> /\ g_wrote = FALSE
    /\ g_runs = 0 /\ g_windows = <<>>

VARIABLES
    \* ---- SpecAuth: the social handles taken from a user's authorizations ----
    a_pc,           \* "in" | "out" ("idle" outside SpecAuth)
    a_tool,         \* the tool that read the list: "download" | "refresh" ("none" before)
    a_authorizations, \* user['authorizations']: null or a list
    a_stored        \* x_id, x_name, discord_id, discord_name as stored

avars == <<a_pc, a_tool, a_authorizations, a_stored>>

NoHandles == [x_id |-> "None", x_name |-> "None",
              discord_id |-> "None", discord_name |-> "None"]

AuthIdle ==
    /\ a_pc = "idle" /\ a_tool = "none"
    /\ a_authorizations = [null |-> TRUE, list |-> <<>>]
    /\ a_stored = NoHandles

\* the variables of the smaller machines, and their values in a
\* specification that is not the machine's own
xvars == <<wvars, uvars, nvars, mvars, rvars, vvars, cvars, gvars, avars>>

IdleExcept(machine) ==
    /\ (machine = "write" \/ WriteIdle)
    /\ (machine = "users" \/ UsersIdle)
    /\ (machine = "names" \/ NamesIdle)
    /\ (machine = "matches" \/ MatchesIdle)
    /\ (machine = "reconcile" \/ ReconcileIdle)
    /\ (machine = "validate" \/ ValidateIdle)
    /\ (machine = "clean" \/ CleanIdle)
    /\ (machine = "refresh" \/ RefreshIdle)
    /\ (machine = "auth" \/ AuthIdle)

vars == <<fvars, svars, xvars>>

(***************************************************************************)
(* JSON values: every value carries its type tag, so that a null, an       *)
(* object and a list can be told apart the way Python does.                *)
(***************************************************************************)
JNull == [t |-> "null", f |-> <<>>, v |-> <<>>]
JObj(fields) == [t |-> "obj", f |-> fields, v |-> <<>>]
JList(items) == [t |-> "list", f |-> <<>>, v |-> items]
JNum(n) == [t |-> "num", f |-> <<>>, v |-> <<n>>]
EmptyObj == JObj(<<>>)
Obj1(k, val) == JObj(k :> val)

\* the key path of the seeds endpoint (download_seeds, keys = ["phase", "seeds"])
SeedsKeys == <<"phase", "seeds">>
\* keys = ["data"] + keys
FullKeys(keys) == <<"data">> \o keys

\* the nodes the remote puts on page p when it returns n of them
NodesOf(p, n) == [i \in 1..n |-> 10 * p + i]

\* a well-formed page: the node list and the declared total beside it
PageEnvelope(nodes, totalPages) ==
    Obj1("data", Obj1("phase", Obj1("seeds",
        JObj("nodes" :> JList(nodes) @@
             "pageInfo" :> Obj1("totalPages", JNum(totalPages))))))

\* envelopes that are valid JSON but do not lead to a node list
NullEntity == Obj1("data", Obj1("phase", JNull))
MalformedEnvelopes ==
    { EmptyObj,                                            \* no "data"
      Obj1("data", JNull),                                 \* "data": null
      Obj1("data", EmptyObj),                              \* no "phase"
      NullEntity,                                          \* "phase": null
      Obj1("data", Obj1("phase", EmptyObj)),               \* no "seeds"
      Obj1("data", Obj1("phase", Obj1("seeds", JNull))),   \* "seeds": null
      Obj1("data", Obj1("phase", Obj1("seeds", EmptyObj))),\* no "nodes"
      Obj1("data", Obj1("phase", Obj1("seeds", Obj1("nodes", JNull)))) }

Envelopes(p) ==
    { PageEnvelope(NodesOf(p, n), tp) : n \in 0..PerPage, tp \in 0..MaxPages }
    \cup MalformedEnvelopes

\* what one request can come to: a transport-level failure (connection error or
\* HTTP error status, both RequestException), a body that is not JSON, or a reply
AttemptOutcomes(p) ==
    { [kind |-> k, resp |-> JNull] : k \in {"RequestException", "JSONDecodeError"} }
    \cup { [kind |-> "json", resp |-> r] : r \in Envelopes(p) }

(***************************************************************************)
(* fetch_data_with_retries (utils.py:185-197)                              *)
(***************************************************************************)
\* a mutant of Caught: a reply that carries a null entity is retried as well
CaughtRetryNull(out) ==
    \/ out.kind \in {"RequestException", "JSONDecodeError"}
    \/ out.kind = "json" /\ out.resp = NullEntity

\* the except clause: (requests.exceptions.RequestException, json.JSONDecodeError)
Caught(out) == out.kind \in {"RequestException", "JSONDecodeError"}

(***************************************************************************)
(* fetch_all_nodes (utils.py:199-221)                                      *)
(***************************************************************************)
\* `key in data`: a dict is asked for the key, None raises TypeError
RECURSIVE Descend(_, _)
Descend(data, keys) ==
    IF keys = <<>> THEN [st |-> "ok", data |-> data]
    ELSE IF data.t # "obj" THEN [st |-> "TypeError", data |-> JNull]
    ELSE IF Head(keys) \notin DOMAIN data.f THEN [st |-> "FetchError", data |-> JNull]
    ELSE Descend(data.f[Head(keys)], Tail(keys))

\* a mutant of MorePages: pagination trusts the declared total
MorePagesByTotal(nodes, container, page) ==
    /\ "pageInfo" \in DOMAIN container.f
    /\ page < container.f["pageInfo"].f["totalPages"].v[1]

\* `if len(nodes) > 0`: the only thing that decides whether another page is asked for
MorePages(nodes, container, page) == Len(nodes) > 0

\* lines 207-220, run on the reply of one page
HandlePage(resp) ==
    LET d == Descend(resp, FullKeys(SeedsKeys)) IN
    IF d.st # "ok" THEN
        /\ f_pc' = d.st
        /\ UNCHANGED <<page_var, all_nodes, served>>
    ELSE IF d.data.t # "obj" THEN               \* "nodes" not in None
        /\ f_pc' = "TypeError"
        /\ UNCHANGED <<page_var, all_nodes, served>>
    ELSE IF "nodes" \notin DOMAIN d.data.f THEN \* return all_nodes
        /\ f_pc' = "returned"
        /\ served' = Append(served, [page |-> page_var, nodes |-> <<>>])
        /\ UNCHANGED <<page_var, all_nodes>>
    ELSE IF d.data.f["nodes"].t # "list" THEN   \* all_nodes.extend(None)
        /\ f_pc' = "TypeError"
        /\ UNCHANGED <<page_var, all_nodes, served>>
    ELSE
        LET nodes == d.data.f["nodes"].v IN
        /\ all_nodes' = all_nodes \o nodes
        /\ served' = Append(served, [page |-> page_var, nodes |-> nodes])
        /\ IF MorePages(nodes, d.data, page_var)
           THEN /\ page_var' = page_var + 1
                /\ f_pc' = "request"
           ELSE /\ f_pc' = "returned"
                /\ UNCHANGED page_var

\* one iteration of `for attempt in range(__max_retries)`; a call that has
\* returned is followed by the first attempt of the next call
Attempt(out) ==
    /\ f_pc = "request"
    /\ page_var <= MaxPages
    /\ LET a == IF call_done THEN 0 ELSE attempt
           h == IF call_done THEN <<>> ELSE outcomes IN
       /\ a < MaxRetries
       /\ requests' = Append(requests, page_var)
       /\ outcomes' = Append(h, out.kind)
       /\ sent' = out
       /\ IF Caught(out)
          THEN /\ attempt' = a + 1
               /\ call_done' = FALSE
               /\ f_pc' = IF a + 1 = MaxRetries THEN "Exhausted" ELSE "request"
               /\ UNCHANGED <<page_var, all_nodes, response_data, served>>
          ELSE /\ attempt' = a
               /\ call_done' = TRUE
               /\ response_data' = out.resp
               /\ HandlePage(out.resp)
    /\ UNCHANGED <<svars, xvars>>

FetchInit ==
    /\ f_pc = "request"
    /\ page_var = 1
    /\ attempt = 0
    /\ all_nodes = <<>>
    /\ response_data = JNull
    /\ call_done = FALSE
    /\ outcomes = <<>>
    /\ requests = <<>>
    /\ served = <<>>
    /\ sent = [kind |-> "none", resp |-> JNull]

FetchStep == \E out \in AttemptOutcomes(page_var) : Attempt(out)

(***************************************************************************)
(* The store: the remote's tournaments and events, the durable files and   *)
(* the in-memory state of the tool that runs.                              *)
(***************************************************************************)
\* the number of tool runs, one after the other, over the same files
MaxRuns == 2
\* the number of entries of a repair or backfill work list
MaxWork == 2
\* the number of pages of the remote's tournament listing
MaxListPages == 2

TournamentIds == {1, 2}
EventIds == {1, 2}
\* the events the remote lists under a tournament (tournament 2 has none of
\* the requested game), and each event's tournament
EventsOf(t) == IF t = 1 THEN <<1, 2>> ELSE <<>>
TournamentOf(e) == CHOOSE t \in TournamentIds : \E i \in 1..Len(EventsOf(t)) : EventsOf(t)[i] = e

\* the remote's data: event 1 has no phase and no sets, event 2 has both
HasPhase(e) == e # 1
HasSets(e) == e # 1

REQUIRED_EVENT_FILES == {"attr.json", "matches.json", "standings.json", "seeds.json"}

\* a Python value of the completion set: the int n, or the string that
\* f"{n}\n" wrote and line.strip() read back
PyInt(n) == <<"int", n>>
PyStr(n) == <<"str", n>>

\* read_set: set(line.strip() for line in f), a set of strings.  Every caller
\* passes as_int=True, which this definition of read_set does not take; the
\* model follows the body as written.
read_set(file) == { PyStr(file[i]) : i \in 1..Len(file) }

\* the in-memory tournaments dict, in insertion order: a sequence of
\* [tournament_id, events] with one entry per id
Has(d, t) == \E i \in 1..Len(d) : d[i].tournament_id = t
IndexOf(d, t) == CHOOSE i \in 1..Len(d) : d[i].tournament_id = t
Get(d, t) == d[IndexOf(d, t)].events
Put(d, t, evs) ==
    IF Has(d, t) THEN [d EXCEPT ![IndexOf(d, t)].events = evs]
    ELSE Append(d, [tournament_id |-> t, events |-> evs])

\* read_tournaments_jsonl: tournaments[tournament["tournament_id"]] = tournament
RECURSIVE LoadLines(_, _)
LoadLines(file, d) ==
    IF file = <<>> THEN d
    ELSE LoadLines(Tail(file), Put(d, Head(file).tournament_id, Head(file).events))
read_tournaments_jsonl(file) == LoadLines(file, <<>>)

\* write_jsonl(list(tournaments.values()), path): the file becomes the records
write_jsonl(data) == data

\* rewrite_tournaments_file: the records sorted by tournament_id
rewrite_tournaments_file(d) ==
    write_jsonl(SortSeq(d, LAMBDA a, b : a.tournament_id < b.tournament_id))

InList(evs, e) == \E i \in 1..Len(evs) : evs[i] = e

\* a mutant of AppendIfAbsent: the event is appended without the membership test
AppendAlways(evs, e) == Append(evs, e)

\* if not any(e.get("event_id") == event_id for e in events): events.append(...)
AppendIfAbsent(evs, e) == IF InList(evs, e) THEN evs ELSE Append(evs, e)

event_files_complete(e) == REQUIRED_EVENT_FILES \subseteq event_files[e]

tournament_events_complete(evs) ==
    /\ evs # <<>>
    /\ \A i \in 1..Len(evs) : event_files_complete(evs[i])

\* how a call of fetch_all_nodes ends (the final values of f_pc in SpecFetch);
\* its TypeError is, like the exhaustion error, an exception that is no
\* FetchError, and every handler treats the two alike
FetchAllOutcomes == {"returned", "FetchError", "Exhausted"}
\* download_seeds: fetch_phase_id, then fetch_all_nodes
SeedsOutcomes == FetchAllOutcomes \cup {"NoPhaseError"}
\* fetch_latest_tournaments_by_game, fetch_event_ids_from_tournament
SingleOutcomes == {"returned", "FetchError", "Exhausted"}
\* fetch_event_metadata / fetch_event_details, and the two early returns after it
MetaOutcomes == {"returned", "no_tournament_id", "no_timestamp", "FetchError", "Exhausted"}

\* the three ways download_all_tournaments treats a listed tournament's dates
TournamentClasses == {"unfinished_or_newer", "older_than_finish_date", "in_range"}

IdleMem ==
    [ tool |-> "none", pc |-> "idle",
      done_tournaments |-> {}, done_events |-> {},
      tournaments |-> <<>>, rewrite_tournaments |-> FALSE,
      existing_tournament_ids |-> {},
      page |-> 0, total_pages |-> 0, tournaments_info |-> <<>>,
      events_info |-> <<>>, tournament_id |-> 0, event_id |-> 0, has_tid |-> FALSE,
      entries_left |-> 0, overwrite_done |-> FALSE, processed |-> 0, failed |-> 0 ]

NoNote == [kind |-> "none", event_id |-> 0]
Note(kind, e) == [kind |-> kind, event_id |-> e]

NoExit == [tool |-> "none", cause |-> "none", at |-> "idle"]

StoreInit ==
    /\ done_file = <<>>
    /\ done_events_file = <<>>
    /\ tournaments_file = <<>>
    /\ event_files = [e \in EventIds |-> {}]
    /\ mem = IdleMem
    /\ runs = 0
    /\ last_exit = NoExit
    /\ note = NoNote
    /\ new_ingested = {}

RepairTools == {"fill", "checkfill"}

\* ---- leaving the current unit ----
\* the process ends: by return, by an exception nothing catches, or by a kill
Exit(cause) ==
    /\ mem' = IdleMem
    /\ last_exit' = [tool |-> mem.tool, cause |-> cause, at |-> mem.pc]

\* download.py:119 / 221-223: the next tournament of the page, the next page, or the end
NextTournament(m) ==
    LET rest == Tail(m.tournaments_info)
        base == [m EXCEPT !.events_info = <<>>, !.tournament_id = 0, !.event_id = 0] IN
    IF rest # <<>> THEN [base EXCEPT !.pc = "tournament", !.tournaments_info = rest]
    ELSE IF m.page >= m.total_pages
         THEN [base EXCEPT !.pc = "finish", !.tournaments_info = <<>>]
         ELSE [base EXCEPT !.pc = "list", !.page = @ + 1, !.tournaments_info = <<>>]

\* download.py:182: the next event of the tournament, or the block after the loop
NextEvent(m) ==
    LET rest == Tail(m.events_info) IN
    IF rest # <<>>
    THEN [m EXCEPT !.pc = "standings", !.events_info = rest, !.event_id = Head(rest)]
    ELSE [m EXCEPT !.pc = "persist", !.events_info = <<>>, !.event_id = 0]

\* the next entry of the work list of a repair or backfill batch, or its end
NextEntry(m) ==
    LET base == [m EXCEPT !.tournament_id = 0, !.event_id = 0, !.has_tid = FALSE,
                          !.entries_left = @ - 1] IN
    IF m.entries_left > 1 THEN [base EXCEPT !.pc = "entry"] ELSE [base EXCEPT !.pc = "end"]

\* an exception raised while a unit is ingested, as each batch loop treats it:
\*   download.py:217            except FetchError: continue (anything else propagates)
\*   fill_missing_events.py:321 except FetchError / except Exception: failed += 1
\*   check_and_fill_missing.py:253 and backfill_events.py:177  no handler
Raised(exc) ==
    IF mem.tool = "download" /\ exc = "FetchError"
    THEN /\ mem' = NextTournament(mem)
         /\ UNCHANGED last_exit
    ELSE IF mem.tool = "fill"
    THEN /\ mem' = NextEntry([mem EXCEPT !.failed = @ + 1])
         /\ UNCHANGED last_exit
    ELSE Exit(exc)

\* process_event returned to its batch loop:
\*   fill_missing_events.py:319      if success: processed += 1
\*   check_and_fill_missing.py:267   processed += 1 else failed += 1
Returned(m, success) ==
    IF success THEN NextEntry([m EXCEPT !.processed = @ + 1])
    ELSE IF m.tool = "checkfill" THEN NextEntry([m EXCEPT !.failed = @ + 1])
    ELSE NextEntry(m)

WriteFile(e, name) == event_files' = [event_files EXCEPT ![e] = @ \cup {name}]

(***************************************************************************)
(* download_all_tournaments (fetch/download.py:98-226)                     *)
(***************************************************************************)
\* lines 99-108
StartDownload ==
    /\ mem.tool = "none"
    /\ runs < MaxRuns
    /\ runs' = runs + 1
    /\ LET t == read_tournaments_jsonl(tournaments_file) IN
       mem' = [IdleMem EXCEPT !.tool = "download", !.pc = "list",
                              !.done_tournaments = read_set(done_file),
                              !.tournaments = t,
                              !.existing_tournament_ids =
                                  {t[i].tournament_id : i \in 1..Len(t)},
                              !.page = 1]
    /\ note' = NoNote
    /\ new_ingested' = {}
    /\ last_exit' = NoExit
    /\ UNCHANGED <<files, fvars, xvars>>

\* lines 109-117: one listing request
ListTournaments(out, info, total) ==
    /\ mem.tool = "download"
    /\ mem.pc = "list"
    /\ IF out = "FetchError" THEN           \* print(e); continue: the same page again
           UNCHANGED <<mem, last_exit>>
       ELSE IF out # "returned" THEN Exit(out)
       ELSE IF info = <<>> THEN
           /\ mem' = [mem EXCEPT !.pc = "finish", !.total_pages = total]
           /\ UNCHANGED last_exit
       ELSE
           /\ mem' = [mem EXCEPT !.pc = "tournament", !.total_pages = total,
                                 !.tournaments_info = info]
           /\ UNCHANGED last_exit
    /\ UNCHANGED <<files, runs, new_ingested, fvars, xvars>>
    /\ note' = IF out = "FetchError" THEN Note("listing FetchError", 0) ELSE NoNote

\* lines 119-180: the head of the loop body for one listed tournament
BeginTournament(cls, out) ==
    /\ mem.tool = "download"
    /\ mem.pc = "tournament"
    /\ LET t == Head(mem.tournaments_info)
           listed == EventsOf(t)
           m1 == [mem EXCEPT !.tournament_id = t]
           m2 == IF Has(mem.tournaments, t) THEN m1
                 ELSE [m1 EXCEPT !.tournaments = Put(@, t, <<>>)]
       IN
       IF cls = "unfinished_or_newer" THEN
           /\ mem' = NextTournament(mem)
           /\ UNCHANGED last_exit
       ELSE IF /\ PyInt(t) \in mem.done_tournaments
               /\ Has(mem.tournaments, t)
               /\ tournament_events_complete(Get(mem.tournaments, t)) THEN
           /\ mem' = NextTournament(mem)
           /\ UNCHANGED last_exit
       ELSE IF cls = "older_than_finish_date" THEN Exit("returned_early")
       ELSE IF out = "FetchError" THEN
           /\ mem' = NextTournament(m2)
           /\ UNCHANGED last_exit
       ELSE IF out # "returned" THEN Exit(out)
       ELSE
           /\ mem' = IF listed = <<>> THEN [m2 EXCEPT !.pc = "persist"]
                     ELSE [m2 EXCEPT !.pc = "standings", !.events_info = listed,
                                     !.event_id = Head(listed)]
           /\ UNCHANGED last_exit
    /\ UNCHANGED <<files, runs, new_ingested, fvars, xvars>>
    /\ note' = NoNote

(***************************************************************************)
(* The steps of one event, shared by download_all_tournaments (lines       *)
(* 182-207), process_event (fill_missing_events.py:188-253) and the loop   *)
(* of backfill_events.main (lines 177-216)                                 *)
(***************************************************************************)
\* download_standings
Standings(out) ==
    /\ mem.tool # "none"
    /\ mem.pc = "standings"
    /\ IF out = "returned"
       THEN /\ WriteFile(mem.event_id, "standings.json")
            /\ mem' = [mem EXCEPT !.pc = "seeds"]
            /\ UNCHANGED last_exit
       ELSE /\ Raised(out)
            /\ UNCHANGED event_files
    /\ UNCHANGED <<done_file, done_events_file, tournaments_file, runs,
                   new_ingested, fvars, xvars>>
    /\ note' = NoNote

\* NoPhaseError: download.py:191-193 `continue`s with the next event;
\* fill_missing_events.py:193 and backfill_events.py:181 print and go on
AfterNoPhase(m) ==
    IF m.tool = "download" THEN NextEvent(m) ELSE [m EXCEPT !.pc = "sets"]

\* download_seeds, and after it extend_user_info
Seeds(out) ==
    /\ mem.tool # "none"
    /\ mem.pc = "seeds"
    /\ out = "NoPhaseError" => ~HasPhase(mem.event_id)
    /\ out = "returned" => HasPhase(mem.event_id)
    /\ IF out = "returned"
       THEN /\ WriteFile(mem.event_id, "seeds.json")
            /\ mem' = [mem EXCEPT !.pc = "sets"]
            /\ note' = NoNote
            /\ UNCHANGED last_exit
       ELSE IF out = "NoPhaseError"
       THEN /\ mem' = AfterNoPhase(mem)
            /\ note' = Note("NoPhaseError", mem.event_id)
            /\ UNCHANGED <<last_exit, event_files>>
       ELSE /\ Raised(out)
            /\ note' = NoNote
            /\ UNCHANGED event_files
    /\ UNCHANGED <<done_file, done_events_file, tournaments_file, runs,
                   new_ingested, fvars, xvars>>

\* download_all_set: `if not all_sets: return` writes no matches.json
Sets(out) ==
    /\ mem.tool # "none"
    /\ mem.pc = "sets"
    /\ IF out = "returned"
       THEN /\ IF HasSets(mem.event_id) THEN WriteFile(mem.event_id, "matches.json")
                           ELSE UNCHANGED event_files
            /\ mem' = [mem EXCEPT !.pc = "attr"]
            /\ UNCHANGED last_exit
       ELSE /\ Raised(out)
            /\ UNCHANGED event_files
    /\ UNCHANGED <<done_file, done_events_file, tournaments_file, runs,
                   new_ingested, fvars, xvars>>
    /\ note' = NoNote

\* write_event_attributes, then the update of the tournament's event list:
\*   download.py:197-207, fill_missing_events.py:204-247, backfill_events.py:188-216
Attributes ==
    /\ mem.tool # "none"
    /\ mem.pc = "attr"
    /\ WriteFile(mem.event_id, "attr.json")
    /\ LET e == mem.event_id
           t == mem.tournament_id
           known == Has(mem.tournaments, t)
           old == IF known THEN Get(mem.tournaments, t) ELSE <<>>
           new == AppendIfAbsent(old, e)
       IN
       CASE mem.tool = "download" ->
              /\ mem' = NextEvent(
                   [mem EXCEPT !.tournaments = Put(@, t, new),
                               !.rewrite_tournaments =
                                   @ \/ (new # old /\ t \in mem.existing_tournament_ids)])
              /\ note' = IF InList(old, e) THEN Note("listed", e) ELSE NoNote
              /\ UNCHANGED <<tournaments_file, new_ingested>>
         [] mem.tool \in RepairTools ->
              IF ~mem.has_tid THEN
                  /\ mem' = [mem EXCEPT !.pc = "markdone"]
                  /\ note' = NoNote
                  /\ UNCHANGED <<tournaments_file, new_ingested>>
              ELSE IF ~known THEN
                  /\ mem' = [mem EXCEPT !.pc = "markdone",
                                        !.tournaments = Put(@, t, <<>>)]
                  /\ tournaments_file' =
                         Append(tournaments_file, [tournament_id |-> t, events |-> <<e>>])
                  /\ new_ingested' = new_ingested \cup {e}
                  /\ note' = NoNote
              ELSE
                  /\ mem' = [mem EXCEPT !.pc = "markdone",
                                        !.tournaments = Put(@, t, new)]
                  /\ note' = IF InList(old, e) THEN Note("listed", e) ELSE NoNote
                  /\ UNCHANGED <<tournaments_file, new_ingested>>
         [] mem.tool = "backfill" ->
              IF ~mem.has_tid THEN
                  /\ mem' = NextEntry([mem EXCEPT !.processed = @ + 1])
                  /\ note' = NoNote
                  /\ UNCHANGED <<tournaments_file, new_ingested>>
              ELSE
                  /\ mem' = NextEntry(
                       [mem EXCEPT !.processed = @ + 1,
                                   !.tournaments = Put(@, t, new),
                                   !.rewrite_tournaments = @ \/ ~known \/ new # old])
                  /\ note' = IF InList(old, e) THEN Note("listed", e) ELSE NoNote
                  /\ UNCHANGED <<tournaments_file, new_ingested>>
    /\ UNCHANGED <<done_file, done_events_file, runs, last_exit, fvars, xvars>>

\* download.py:209-213: the tournament's record goes to the log, unless a
\* rewrite is pending
PersistTournament ==
    /\ mem.tool = "download"
    /\ mem.pc = "persist"
    /\ LET t == mem.tournament_id IN
       IF Len(Get(mem.tournaments, t)) > 0
       THEN /\ mem' = [mem EXCEPT !.pc = "markdone"]
            /\ tournaments_file' =
                 IF mem.rewrite_tournaments THEN tournaments_file
                 ELSE Append(tournaments_file,
                             [tournament_id |-> t, events |-> Get(mem.tournaments, t)])
       ELSE /\ mem' = NextTournament(mem)
            /\ UNCHANGED tournaments_file
    /\ UNCHANGED <<done_file, done_events_file, event_files, runs, last_exit, new_ingested, fvars, xvars>>
    /\ note' = NoNote

\* download.py:214-215 (write_done_tournaments) and
\* fill_missing_events.py:249-253 (write_done_event)
MarkDone ==
    /\ mem.tool \in {"download"} \cup RepairTools
    /\ mem.pc = "markdone"
    /\ IF mem.tool = "download"
       THEN /\ mem' = NextTournament(
                 [mem EXCEPT !.done_tournaments = @ \cup {PyInt(mem.tournament_id)}])
            /\ done_file' = Append(done_file, mem.tournament_id)
            /\ UNCHANGED done_events_file
       ELSE /\ mem' = Returned(
                 [mem EXCEPT !.done_events = @ \cup {PyInt(mem.event_id)}], TRUE)
            /\ done_events_file' =
                 IF PyInt(mem.event_id) \in mem.done_events THEN done_events_file
                 ELSE Append(done_events_file, mem.event_id)
            /\ UNCHANGED done_file
    /\ UNCHANGED <<tournaments_file, event_files, runs, last_exit, new_ingested, fvars, xvars>>
    /\ note' = NoNote

\* download.py:225-226
FinishDownload ==
    /\ mem.tool = "download"
    /\ mem.pc = "finish"
    /\ tournaments_file' = IF mem.rewrite_tournaments THEN write_jsonl(mem.tournaments)
                           ELSE tournaments_file
    /\ Exit("returned")
    /\ UNCHANGED <<done_file, done_events_file, event_files, runs,
                   new_ingested, fvars, xvars>>
    /\ note' = NoNote

(***************************************************************************)
(* The repair batches: main of fill_missing_events.py (lines 292-336) and  *)
(* download_missing_events of check_and_fill_missing.py (lines 233-280)    *)
(***************************************************************************)
StartRepair(which, n, overwrite) ==
    /\ mem.tool = "none"
    /\ runs < MaxRuns
    /\ runs' = runs + 1
    /\ mem' = [IdleMem EXCEPT !.tool = which, !.pc = "entry",
                              !.done_events = read_set(done_events_file),
                              !.tournaments = read_tournaments_jsonl(tournaments_file),
                              !.entries_left = n,
                              !.overwrite_done = overwrite]
    /\ note' = NoNote
    /\ new_ingested' = {}
    /\ last_exit' = NoExit
    /\ UNCHANGED <<files, fvars, xvars>>

\* the "id" of an entry of the work list, a JSON value: absent or null; an
\* integer; a string int() converts ("12"); a string it does not ("abc", "");
\* a list or an object
IdKinds == {"absent", "int", "digits", "letters", "list"}

\* int(event_id), lines 152-157: only a ValueError is caught
\*   a string that is no number raises ValueError; a list or an object
\*   raises TypeError
IntOf(id_kind) ==
    CASE id_kind \in {"int", "digits"} -> "converted"
      [] id_kind = "letters" -> "ValueError"
      [] id_kind = "list" -> "TypeError"
      [] OTHER -> "None"

\* process_event, lines 146-186: the id, the done check, fetch_event_metadata
BeginEntry(id_kind, e, out) ==
    /\ mem.tool \in RepairTools
    /\ mem.pc = "entry"
    /\ IF IntOf(id_kind) \in {"None", "ValueError"} THEN
           /\ mem' = Returned(mem, FALSE)
           /\ UNCHANGED last_exit
           /\ note' = Note("id unresolvable: returned False", 0)
       ELSE IF IntOf(id_kind) = "TypeError" THEN
           /\ Raised("TypeError")
           /\ note' = Note("id unresolvable: raised TypeError", 0)
       ELSE IF PyInt(e) \in mem.done_events /\ ~mem.overwrite_done THEN
           /\ mem' = Returned(mem, FALSE)
           /\ UNCHANGED last_exit
           /\ note' = NoNote
       ELSE IF out \in {"FetchError", "Exhausted"} THEN
           /\ Raised(out)
           /\ note' = NoNote
       ELSE IF out = "no_timestamp" THEN
           /\ mem' = Returned(mem, FALSE)
           /\ UNCHANGED last_exit
           /\ note' = NoNote
       ELSE
           /\ mem' = [mem EXCEPT !.pc = "standings", !.event_id = e,
                                 !.tournament_id = TournamentOf(e),
                                 !.has_tid = (out = "returned")]
           /\ UNCHANGED last_exit
           /\ note' = NoNote
    /\ UNCHANGED <<files, runs, new_ingested, fvars, xvars>>

\* fill_missing_events.py:332-336 / check_and_fill_missing.py:278-280
EndRepair ==
    /\ mem.tool \in RepairTools
    /\ mem.pc = "end"
    /\ tournaments_file' = IF mem.processed > 0
                           THEN rewrite_tournaments_file(mem.tournaments)
                           ELSE tournaments_file
    /\ Exit("returned")
    /\ UNCHANGED <<done_file, done_events_file, event_files, runs,
                   new_ingested, fvars, xvars>>
    /\ note' = NoNote

(***************************************************************************)
(* backfill_events.main (lines 116-222)                                    *)
(***************************************************************************)
StartBackfill(n) ==
    /\ mem.tool = "none"
    /\ runs < MaxRuns
    /\ runs' = runs + 1
    /\ mem' = [IdleMem EXCEPT !.tool = "backfill", !.pc = "entry",
                              !.tournaments = read_tournaments_jsonl(tournaments_file),
                              !.entries_left = n]
    /\ note' = NoNote
    /\ new_ingested' = {}
    /\ last_exit' = NoExit
    /\ UNCHANGED <<files, fvars, xvars>>

\* lines 134-175: fetch_event_details and the filters before the download
BeginBackfillEntry(e, out, in_window) ==
    /\ mem.tool = "backfill"
    /\ mem.pc = "entry"
    /\ IF out = "FetchError" THEN          \* except FetchError: continue
           /\ mem' = NextEntry(mem)
           /\ UNCHANGED last_exit
       ELSE IF out = "Exhausted" THEN Exit(out)
       ELSE IF out = "no_timestamp" \/ ~in_window THEN
           /\ mem' = NextEntry(mem)
           /\ UNCHANGED last_exit
       ELSE
           /\ mem' = [mem EXCEPT !.pc = "standings", !.event_id = e,
                                 !.tournament_id = TournamentOf(e),
                                 !.has_tid = (out = "returned")]
           /\ UNCHANGED last_exit
    /\ UNCHANGED <<files, runs, new_ingested, fvars, xvars>>
    /\ note' = NoNote

\* lines 218-222
EndBackfill ==
    /\ mem.tool = "backfill"
    /\ mem.pc = "end"
    /\ tournaments_file' = IF mem.rewrite_tournaments THEN write_jsonl(mem.tournaments)
                           ELSE tournaments_file
    /\ Exit("returned")
    /\ UNCHANGED <<done_file, done_events_file, event_files, runs,
                   new_ingested, fvars, xvars>>
    /\ note' = NoNote

\* the process is terminated from outside, at any point of a run
Terminate ==
    /\ mem.tool # "none"
    /\ Exit("killed")
    /\ UNCHANGED <<files, runs, new_ingested, fvars, xvars>>
    /\ note' = NoNote

ListingPages == {<<>>, <<1>>, <<1, 2>>}

Init == FetchInit /\ StoreInit /\ IdleExcept("none")

Next ==
    \/ StartDownload
    \/ \E out \in SingleOutcomes, info \in ListingPages, total \in 1..MaxListPages :
           ListTournaments(out, info, total)
    \/ \E cls \in TournamentClasses, out \in SingleOutcomes : BeginTournament(cls, out)
    \/ \E out \in FetchAllOutcomes : Standings(out)
    \/ \E out \in SeedsOutcomes : Seeds(out)
    \/ \E out \in FetchAllOutcomes : Sets(out)
    \/ Attributes
    \/ PersistTournament
    \/ MarkDone
    \/ FinishDownload
    \/ \E which \in RepairTools, n \in 1..MaxWork, overwrite \in BOOLEAN :
           StartRepair(which, n, overwrite)
    \/ \E id_kind \in IdKinds, e \in EventIds, out \in MetaOutcomes :
           BeginEntry(id_kind, e, out)
    \/ EndRepair
    \/ \E n \in 1..MaxWork : StartBackfill(n)
    \/ \E e \in EventIds, out \in MetaOutcomes, in_window \in BOOLEAN :
           BeginBackfillEntry(e, out, in_window)
    \/ EndBackfill
    \/ Terminate

Spec == Init /\ [][Next]_vars

InitFetch == FetchInit /\ StoreInit /\ IdleExcept("none")

NextFetch == FetchStep

SpecFetch == InitFetch /\ [][NextFetch]_vars

(***************************************************************************)
(* SpecWrite: write_jsonl (utils.py:67-73; fix_missing_tournaments.py:     *)
(* 159-165 is the same loop), the full rewrite of tournaments.jsonl or     *)
(* users.jsonl.  The file is opened with mode "w" and the records are      *)
(* dumped one per line.                                                    *)
(***************************************************************************)
\* the largest number of lines of a log, and of distinct records
MaxLogLen == 3

JSON_VERSION == "1.0"

RecordIds == 1..MaxLogLen

\* the record lists: every record id at most once
Logs ==
    UNION { { q \in [1..n -> RecordIds] : \A i, j \in 1..n : q[i] = q[j] => i = j }
            : n \in 0..MaxLogLen }

\* d["version"] = JSON_VERSION; json.dump(d, f); f.write("\n")
Line(d) == [id |-> d, version |-> JSON_VERSION]

Lines(data) == [i \in 1..Len(data) |-> Line(data[i])]

not_w == <<fvars, svars, uvars, nvars, mvars, rvars, vvars, cvars, gvars, avars>>

WriteInit ==
    /\ w_pc = "start"
    /\ w_data \in Logs
    /\ w_old \in { Lines(q) : q \in Logs }
    /\ w_file = w_old
    /\ w_i = 0

\* with open(file_path, "w", encoding="utf-8") as f: the file is truncated
OpenWrite ==
    /\ w_pc = "start"
    /\ w_pc' = "writing"
    /\ w_file' = <<>>
    /\ UNCHANGED <<w_data, w_i, w_old, not_w>>

\* one iteration of `for d in data`
WriteLine ==
    /\ w_pc = "writing"
    /\ w_i < Len(w_data)
    /\ w_file' = Append(w_file, Line(w_data[w_i + 1]))
    /\ w_i' = w_i + 1
    /\ UNCHANGED <<w_pc, w_data, w_old, not_w>>

\* the end of the with block
CloseWrite ==
    /\ w_pc = "writing"
    /\ w_i = Len(w_data)
    /\ w_pc' = "closed"
    /\ UNCHANGED <<w_file, w_data, w_i, w_old, not_w>>

\* the process is terminated during the call
KillWrite ==
    /\ w_pc \in {"start", "writing"}
    /\ w_pc' = "killed"
    /\ UNCHANGED <<w_file, w_data, w_i, w_old, not_w>>

InitWrite == FetchInit /\ StoreInit /\ IdleExcept("write") /\ WriteInit

NextWrite == OpenWrite \/ WriteLine \/ CloseWrite \/ KillWrite

SpecWrite == InitWrite /\ [][NextWrite]_vars

(***************************************************************************)
(* SpecUsers: extend_user_info (fetch/download.py:394-435) called again    *)
(* and again by a tool, and the tool started anew (read_users_jsonl,       *)
(* utils.py:96-105).  The fields of a user (player_id, gamer_tag, prefix,  *)
(* ...) are one value.                                                     *)
(***************************************************************************)
\* the number of distinct user ids
MaxUsers == 2
\* the number of (user, player) pairs of one call
MaxBatch == 2

UserIds == 1..MaxUsers
\* the values the fields of a user take: the remote may report a user with
\* other fields at a later event
UserFields == {"tag_a", "tag_b"}

\* zip(user_data, player_data): a pair with user or player None, or a user
NonePair == [user_id |-> 0, fields |-> "None"]
\* user 1 is the one the remote reports with either value; the others always
\* come with the same one
FieldsOf(user_id) == IF user_id = 1 THEN UserFields ELSE {"tag_a"}
Pairs == {NonePair} \cup
         UNION { [user_id : {u}, fields : FieldsOf(u)] : u \in UserIds }
Batches == UNION { [1..n -> Pairs] : n \in 0..MaxBatch }

not_u == <<fvars, svars, wvars, nvars, mvars, rvars, vvars, cvars, gvars, avars>>

\* the dict: a function from the ids present to their records
EmptyDict == <<>>
DictPut(d, k, v) == [x \in DOMAIN d \cup {k} |-> IF x = k THEN v ELSE d[x]]

\* a mutant of NotInUsers: every incoming user is taken as new
NotInUsersAlways(us, user_id) == TRUE

\* if user_id not in users
NotInUsers(us, user_id) == user_id \notin DOMAIN us

\* new_user, before and after extend_jsonl put "version" into the dict
NewUser(pair) == [user_id |-> pair.user_id, fields |-> pair.fields, version |-> "none"]
WithVersion(rec) == [rec EXCEPT !.version = JSON_VERSION]

\* the for loop of extend_user_info: the users map and new_users after it
RECURSIVE ExtendLoop(_, _, _)
ExtendLoop(batch, us, new_users) ==
    IF batch = <<>> THEN [users |-> us, new_users |-> new_users]
    ELSE LET pair == Head(batch) IN
         IF pair = NonePair THEN ExtendLoop(Tail(batch), us, new_users)
         ELSE IF NotInUsers(us, pair.user_id)
         THEN ExtendLoop(Tail(batch), DictPut(us, pair.user_id, NewUser(pair)),
                         Append(new_users, pair.user_id))
         ELSE ExtendLoop(Tail(batch), us, new_users)

\* extend_jsonl(new_users, users_file_path, with_version=True): the dicts of
\* new_users are the ones stored in users, and each receives "version"
RECURSIVE Stamp(_, _)
Stamp(us, ids) ==
    IF ids = <<>> THEN us
    ELSE Stamp([us EXCEPT ![Head(ids)] = WithVersion(@)], Tail(ids))

extend_user_info(batch) ==
    LET r == ExtendLoop(batch, users, <<>>)
        stamped == Stamp(r.users, r.new_users) IN
    /\ users' = stamped
    /\ users_file' = users_file \o [i \in 1..Len(r.new_users) |-> stamped[r.new_users[i]]]
    /\ u_batch' = batch
    /\ u_before' = users
    /\ u_file_before' = users_file
    /\ UNCHANGED not_u

\* read_users_jsonl: del user["version"]; users[user["user_id"]] = user
RECURSIVE LoadUsers(_, _)
LoadUsers(file, d) ==
    IF file = <<>> THEN d
    ELSE LoadUsers(Tail(file),
                   DictPut(d, Head(file).user_id, [Head(file) EXCEPT !.version = "none"]))
read_users_jsonl(file) == LoadUsers(file, EmptyDict)

\* the tool ends and one is started over the same users.jsonl
RestartUsers ==
    /\ users' = read_users_jsonl(users_file)
    /\ u_batch' = <<>>
    /\ u_before' = users'
    /\ u_file_before' = users_file
    /\ UNCHANGED <<users_file, not_u>>

UsersInit ==
    /\ users = EmptyDict
    /\ users_file = <<>>
    /\ u_batch = <<>>
    /\ u_before = EmptyDict
    /\ u_file_before = <<>>

InitUsers == FetchInit /\ StoreInit /\ IdleExcept("users") /\ UsersInit

NextUsers ==
    \/ \E batch \in Batches : extend_user_info(batch)
    \/ RestartUsers

SpecUsers == InitUsers /\ [][NextUsers]_vars

(***************************************************************************)
(* SpecNames: normalize_name (check_jjpr_events.py:13-24).  A string is    *)
(* the sequence of its characters; "U+FF0F" is the fullwidth solidus and   *)
(* "U+00DF" the sharp s, whose casefold is "ss".                           *)
(***************************************************************************)
\* the length of the names that are enumerated
MaxNameLen == 3

Chars == {" ", "_", "/", "-", "U+FF0F", "F", "f", "U+00DF"}

\* a mutant of REPLACEMENTS: the fullwidth solidus becomes the solidus
REPLACEMENTS_ToSolidus == << <<" ", "_">>, <<"/", "-">>, <<"U+FF0F", "/">> >>

REPLACEMENTS == << <<" ", "_">>, <<"/", "-">>, <<"U+FF0F", "-">> >>

\* str.replace(src, dest) for a one-character src
Replace(name, src, dest) == [i \in 1..Len(name) |-> IF name[i] = src THEN dest ELSE name[i]]

RECURSIVE ReplaceAll(_, _)
ReplaceAll(name, reps) ==
    IF reps = <<>> THEN name
    ELSE ReplaceAll(Replace(name, Head(reps)[1], Head(reps)[2]), Tail(reps))

\* a mutant of FoldChar: the case is kept
FoldCharKeepCase(c) == <<c>>

\* str.casefold of one character: a capital becomes the small letter, the
\* sharp s becomes "ss", every other character of the model is kept
FoldChar(c) ==
    CASE c = "F" -> <<"f">>
      [] c = "B" -> <<"b">>
      [] c = "U+00DF" -> <<"s", "s">>
      [] OTHER -> <<c>>

RECURSIVE casefold(_)
casefold(name) == IF name = <<>> THEN <<>> ELSE FoldChar(Head(name)) \o casefold(Tail(name))

normalize_name(name) == casefold(ReplaceAll(name, REPLACEMENTS))

\* " Foo/Bar ", "_foo-bar" and "_foo-bar_"
NameFooBar == <<" ", "F", "o", "o", "/", "B", "a", "r", " ">>
NameFooBarNormal == <<"_", "f", "o", "o", "-", "b", "a", "r">>
NameFooBarTrailing == <<"_", "f", "o", "o", "-", "b", "a", "r", "_">>

Names == UNION { [1..n -> Chars] : n \in 0..MaxNameLen } \cup {NameFooBar}
OtherNames == {NameFooBarNormal, NameFooBarTrailing}

not_n == <<fvars, svars, wvars, uvars, mvars, rvars, vvars, cvars, gvars, avars>>

NamesInit ==
    /\ n_pc = "in"
    /\ n_in \in Names
    /\ n_other \in OtherNames
    /\ n_once = <<>>
    /\ n_other_once = <<>>
    /\ n_twice = <<>>

Normalize ==
    /\ n_pc = "in"
    /\ n_pc' = "once"
    /\ n_once' = normalize_name(n_in)
    /\ n_other_once' = normalize_name(n_other)
    /\ UNCHANGED <<n_in, n_other, n_twice, not_n>>

NormalizeAgain ==
    /\ n_pc = "once"
    /\ n_pc' = "twice"
    /\ n_twice' = normalize_name(n_once)
    /\ UNCHANGED <<n_in, n_other, n_once, n_other_once, not_n>>

InitNames == FetchInit /\ StoreInit /\ IdleExcept("names") /\ NamesInit

NextNames == Normalize \/ NormalizeAgain

SpecNames == InitNames /\ [][NextNames]_vars

(***************************************************************************)
(* SpecMatches: write_matches (fetch/download.py:245-312).  Of a node the  *)
(* model keeps its slots; of a slot its entrant and the score value of its *)
(* standing; of a match the winner, the loser, the scores and the flags.   *)
(***************************************************************************)
\* the largest score value the remote reports
MaxScore == 3
\* the number of set nodes of the event
MaxNodes == 1

None == "None"

\* slot['standing']: null, or a standing whose stats.score.value is null or
\* a number (-1 marks a disqualification), or a standing whose stats or whose
\* stats.score is null
NoStanding == [present |-> FALSE, null |-> TRUE, value |-> 0, lacks |-> "none"]
NullScore == [present |-> TRUE, null |-> TRUE, value |-> 0, lacks |-> "none"]
Score(v) == [present |-> TRUE, null |-> FALSE, value |-> v, lacks |-> "none"]
NoStats == [present |-> TRUE, null |-> TRUE, value |-> 0, lacks |-> "stats"]
NoScore == [present |-> TRUE, null |-> TRUE, value |-> 0, lacks |-> "score"]
StandingValues ==
    {NoStanding, NullScore, NoStats, NoScore} \cup { Score(v) : v \in -1..MaxScore }
Entrants == {"e1", "e2"}
\* slot: entrant null or an entrant; standing null or a standing
Slots == [entrant : {None} \cup Entrants, standing : StandingValues]
ASlot == [entrant |-> "e1", standing |-> Score(1)]
\* node['slots']: null, two slots, or (rarely) another number of slots
NoSlots == [present |-> FALSE, list |-> <<>>]
SlotLists == {<<>>, <<ASlot>>, <<ASlot, ASlot, ASlot>>} \cup [1..2 -> Slots]
Nodes == {[slots |-> NoSlots]} \cup { [slots |-> [present |-> TRUE, list |-> l]] : l \in SlotLists }
\* a set that is persisted whatever the others are
OtherNode ==
    [slots |-> [present |-> TRUE,
                list |-> << [entrant |-> "e1", standing |-> Score(2)],
                            [entrant |-> "e2", standing |-> Score(0)] >>]]
\* the sets of the event: up to MaxNodes of any shape, or one of any shape
\* among sets that are persisted
NodeLists ==
    UNION { [1..n -> Nodes] : n \in 0..MaxNodes }
        \cup UNION { { <<OtherNode, node>>, <<node, OtherNode>>,
                       <<OtherNode, node, OtherNode>> } : node \in Nodes }

\* entrant2user as download_standings built it: entrant e2 has no user
entrant2user == [e \in {"e1"} |-> "u1"]
UserOf(entrant) == IF entrant \in DOMAIN entrant2user THEN entrant2user[entrant] ELSE None

\* value if value is not None else 0
ScoreOf(slot) == IF ~slot.standing.null THEN slot.standing.value ELSE 0

\* a mutant of Greater: the comparison is turned around
GreaterFlipped(a, b) == a < b

\* score0 > score1
Greater(a, b) == a > b

\* the nodes the loop skips with `continue` (lines 249-255)
Skipped(node) ==
    \/ ~node.slots.present
    \/ Len(node.slots.list) # 2
    \/ node.slots.list[1].entrant = None
    \/ node.slots.list[2].entrant = None
    \/ ~node.slots.list[1].standing.present
    \/ ~node.slots.list[2].standing.present

\* dq = (score0 < 0 or score1 < 0)
dq_flag(score0, score1) == score0 < 0 \/ score1 < 0

\* a mutant of cancel_flag: one zero score is enough
cancel_flag_EitherZero(score0, score1) == score0 = 0 \/ score1 = 0

\* cancel = score0 == 0 and score1 == 0
cancel_flag(score0, score1) == score0 = 0 /\ score1 = 0

\* lines 258-267 and 296-306: match_data of one node
match_data(node) ==
    LET slot0 == node.slots.list[1]
        slot1 == node.slots.list[2]
        score0 == ScoreOf(slot0)
        score1 == ScoreOf(slot1)
        winner_slot == IF Greater(score0, score1) THEN slot0 ELSE slot1
        loser_slot == IF winner_slot = slot0 THEN slot1 ELSE slot0
    IN  [ winner_id |-> UserOf(winner_slot.entrant),
          loser_id |-> UserOf(loser_slot.entrant),
          winner_score |-> IF winner_slot = slot0 THEN score0 ELSE score1,
          loser_score |-> IF winner_slot = slot0 THEN score1 ELSE score0,
          dq |-> dq_flag(score0, score1),
          cancel |-> cancel_flag(score0, score1) ]

RECURSIVE MatchesOf(_)
MatchesOf(nodes) ==
    IF nodes = <<>> THEN <<>>
    ELSE IF Skipped(Head(nodes)) THEN MatchesOf(Tail(nodes))
    ELSE <<match_data(Head(nodes))>> \o MatchesOf(Tail(nodes))

\* a mutant of RaisesTypeError: a standing without stats or score is read as
\* a null score
RaisesTypeError_Never(node) == FALSE

\* lines 258-259: slot['standing']['stats']['score']['value'] of a standing
\* whose stats or score is null raises TypeError
RaisesTypeError(node) ==
    /\ ~Skipped(node)
    /\ \E i \in 1..2 : node.slots.list[i].standing.lacks # "none"

not_m == <<fvars, svars, wvars, uvars, nvars, rvars, vvars, cvars, gvars, avars>>

MatchesInit ==
    /\ m_pc = "fetched"
    /\ m_nodes \in NodeLists
    /\ matches_json = <<>>

\* write_matches: the loop, then write_json (line 310), which an exception
\* in the loop does not reach
write_matches ==
    /\ m_pc = "fetched"
    /\ IF \E i \in 1..Len(m_nodes) : RaisesTypeError(m_nodes[i])
       THEN /\ m_pc' = "raised"
            /\ UNCHANGED matches_json
       ELSE /\ m_pc' = "written"
            /\ matches_json' = MatchesOf(m_nodes)
    /\ UNCHANGED <<m_nodes, not_m>>

InitMatches == FetchInit /\ StoreInit /\ IdleExcept("matches") /\ MatchesInit

NextMatches == write_matches

SpecMatches == InitMatches /\ [][NextMatches]_vars

(***************************************************************************)
(* SpecReconcile: main of check_and_fill_missing.py (lines 283-343) with   *)
(* find_missing_events (134-159), build_tournament_index                   *)
(* (check_jjpr_events.py:27-37) and download_missing_events (213-280).     *)
(* process_event, modelled step by step in Spec, is here one step per      *)
(* entry: what matters is whether it returned, and the tournament          *)
(* directory that download_standings creates under get_event_directory.    *)
(***************************************************************************)
\* the number of entries of the target list
MaxTargets == 2

\* the tournament name the remote reports for an event (fetch_event_metadata)
RemoteName(event_id) ==
    IF event_id = "1" THEN <<"F", " ", "f">> ELSE <<"F", "/", "f">>

\* get_event_directory: tournament_name.replace(" ", "_").replace("/", "-")
DirNameOf(tournament_name) ==
    ReplaceAll(tournament_name, << <<" ", "_">>, <<"/", "-">> >>)

\* an entry of the list: "id" absent or an event id, "tournamentName" absent
\* or a string (the empty string among them)
TargetIds == {None, "1", "2"}
TargetNames == { <<>>, <<"F", " ", "f">>, <<"f", "_", "f">>, <<"F", "/", "f">> }
TargetEntries ==
    [id : TargetIds, has_name : {TRUE}, name : TargetNames]
        \cup [id : TargetIds, has_name : {FALSE}, name : {<<>>}]
TargetLists == UNION { [1..n -> TargetEntries] : n \in 0..MaxTargets }

\* the directories earlier runs may have left under events_root
StoredDirs == SUBSET { DirNameOf(RemoteName(e)) : e \in {"1", "2"} }

\* build_tournament_index: the normalized name -> the directories of that key
build_tournament_index(dirs) ==
    [ key \in { normalize_name(d) : d \in dirs } |->
          { d \in dirs : normalize_name(d) = key } ]

\* a mutant of Matches: the name is looked up as it is written
MatchesRaw(index, name) == IF name \in DOMAIN index THEN index[name] ELSE {}

\* index.get(normalize_name(tournament_name), [])
Matches(index, name) ==
    IF normalize_name(name) \in DOMAIN index THEN index[normalize_name(name)] ELSE {}

WithReason(entry, reason) ==
    [id |-> entry.id, has_name |-> entry.has_name, name |-> entry.name,
     missing_reason |-> reason]

\* the for loop of find_missing_events
RECURSIVE MissingLoop(_, _)
MissingLoop(events, index) ==
    IF events = <<>> THEN <<>>
    ELSE LET event == Head(events) IN
         IF ~event.has_name \/ event.name = <<>>          \* if not tournament_name
         THEN <<WithReason(event, "tournamentName missing")>>
                  \o MissingLoop(Tail(events), index)
         ELSE IF Matches(index, event.name) # {}
         THEN MissingLoop(Tail(events), index)
         ELSE <<WithReason(event, "no matching directory")>>
                  \o MissingLoop(Tail(events), index)

find_missing_events(events, dirs) == MissingLoop(events, build_tournament_index(dirs))

not_r == <<fvars, svars, wvars, uvars, nvars, mvars, vvars, cvars, gvars, avars>>

ReconcileInit ==
    /\ r_pc = "start"
    /\ target_events \in TargetLists
    /\ tournament_dirs \in StoredDirs
    /\ r_args \in [skip_fill : BOOLEAN, inputs_exist : BOOLEAN]
    /\ missing_first = <<>>
    /\ missing_after = <<>>
    /\ r_next = 0
    /\ r_counts = [processed |-> 0, failed |-> 0]
    /\ r_exit = NotExited

\* a mutant of ExitCode: the run always reports success
ExitCodeZero(missing) == 0

\* return 0 if not missing else 1 (lines 338-343)
ExitCode(missing) == IF missing = <<>> THEN 0 ELSE 1

ExitWith(code, by) ==
    /\ r_pc' = "exited"
    /\ r_exit' = [code |-> code, by |-> by]

\* main, lines 288-321 and 343: the first check and what follows from it
CheckFirst ==
    /\ r_pc = "start"
    /\ IF ~r_args.inputs_exist THEN
           /\ ExitWith(1, "input missing")
           /\ UNCHANGED <<missing_first, r_next>>
       ELSE LET missing == find_missing_events(target_events, tournament_dirs) IN
           /\ missing_first' = missing
           /\ IF missing # <<>> /\ ~r_args.skip_fill
              THEN /\ r_pc' = "fill"
                   /\ r_next' = 1
                   /\ UNCHANGED r_exit
              ELSE /\ ExitWith(ExitCode(missing), "first check")
                   /\ UNCHANGED r_next
    /\ UNCHANGED <<target_events, tournament_dirs, r_args, missing_after, r_counts, not_r>>

\* how process_event can end for an entry
RepairOutcomes(entry) ==
    IF entry.id = None THEN {"returned False"}
    ELSE {"returned True", "returned False", "raised", "raised after standings"}

\* download_missing_events, lines 250-270: one entry of the loop
RepairEntry(out) ==
    /\ r_pc = "fill"
    /\ r_next <= Len(missing_first)
    /\ LET entry == missing_first[r_next] IN
       /\ out \in RepairOutcomes(entry)
       /\ tournament_dirs' =
              IF out \in {"returned True", "raised after standings"}
              THEN tournament_dirs \cup {DirNameOf(RemoteName(entry.id))}
              ELSE tournament_dirs
       /\ IF out \in {"raised", "raised after standings"}
          THEN /\ ExitWith(1, "exception")
               /\ UNCHANGED <<r_next, r_counts>>
          ELSE /\ r_next' = r_next + 1
               /\ r_counts' = IF out = "returned True"
                               THEN [r_counts EXCEPT !.processed = @ + 1]
                               ELSE [r_counts EXCEPT !.failed = @ + 1]
               /\ UNCHANGED <<r_pc, r_exit>>
    /\ UNCHANGED <<target_events, r_args, missing_first, missing_after, not_r>>

\* main, lines 323-341: the re-check after the batch
Recheck ==
    /\ r_pc = "fill"
    /\ r_next > Len(missing_first)
    /\ LET missing == find_missing_events(target_events, tournament_dirs) IN
       /\ missing_after' = missing
       /\ ExitWith(ExitCode(missing), "recheck")
    /\ UNCHANGED <<target_events, tournament_dirs, r_args, missing_first, r_next,
                   r_counts, not_r>>

InitReconcile == FetchInit /\ StoreInit /\ IdleExcept("reconcile") /\ ReconcileInit

NextReconcile ==
    \/ CheckFirst
    \/ \E out \in {"returned True", "returned False", "raised", "raised after standings"} :
           RepairEntry(out)
    \/ Recheck

SpecReconcile == InitReconcile /\ [][NextReconcile]_vars

(***************************************************************************)
(* SpecValidate: validate_event_dir and main of fix/validate_data.py.  A   *)
(* file of the event directory is absent, or holds text that is no JSON,   *)
(* or a JSON array, or a JSON object; "data" of an object is absent, some  *)
(* value that is no list, or a list of items; an item is an object or some *)
(* other JSON value.  A finding is the kind of its message and the file or *)
(* field it is about.                                                      *)
(***************************************************************************)
\* the largest number of entries of standings.json
MaxStandings == 10
\* the largest number of matches of matches.json
MaxMatches == 10

\* REQUIRED_EVENT_FILES of validate_data.py, a tuple
REQUIRED_EVENT_FILES_IN_ORDER == <<"attr.json", "matches.json", "seeds.json", "standings.json">>

\* the thresholds, as fractions: 0.2, 0.1, 0.05
MAX_MISSING_USER_RATIO_ERROR == [num |-> 2, den |-> 10]
MAX_MISSING_MATCH_ID_RATIO_ERROR == [num |-> 1, den |-> 10]
MAX_MISMATCHED_MATCH_ID_RATIO_ERROR == [num |-> 5, den |-> 100]
MIN_MATCH_COUNT_FOR_MISMATCH_ERROR == 5

\* a mutant of RatioExceeds: the threshold itself counts as exceeded
RatioAtLeast(count, total, threshold) == count * threshold.den >= threshold.num * total

\* ratio = count / total; ratio > threshold.  The quotient of two list
\* lengths is rounded to the nearest double, as the threshold literal is, so
\* the comparison of the doubles is the comparison of the fractions
RatioExceeds(count, total, threshold) == count * threshold.den > threshold.num * total

\* attr["num_entrants"]: the key absent, null, the integers 0 and 3, the
\* boolean false (for Python an int that equals 0) and a string
NumEntrants == {"missing", "null", "0", "3", "False", "str"}
isinstance_int(v) == v \in {"0", "3", "False"}
EqualsZero(v) == v \in {"0", "False"}

\* attr.json
AbsentAttr == [exists |-> FALSE, json |-> "none", num_entrants |-> "missing", place |-> "absent"]
InvalidAttr == [exists |-> TRUE, json |-> "invalid", num_entrants |-> "missing", place |-> "absent"]
ArrayAttr == [exists |-> TRUE, json |-> "array", num_entrants |-> "missing", place |-> "absent"]
AttrObject(num_entrants, place) ==
    [exists |-> TRUE, json |-> "object", num_entrants |-> num_entrants, place |-> place]
Places == {"object", "absent", "string"}
AttrShapes ==
    {AbsentAttr, InvalidAttr, ArrayAttr}
        \cup { AttrObject(n, p) : n \in NumEntrants, p \in Places }

\* matches.json, seeds.json, standings.json
AbsentFile == [exists |-> FALSE, json |-> "none", has_data |-> FALSE, data_is_list |-> FALSE, data |-> <<>>]
InvalidFile == [AbsentFile EXCEPT !.exists = TRUE, !.json = "invalid"]
ArrayFile == [AbsentFile EXCEPT !.exists = TRUE, !.json = "array"]
NoDataFile == [AbsentFile EXCEPT !.exists = TRUE, !.json = "object"]
DataNotList == [NoDataFile EXCEPT !.has_data = TRUE]
ListFile(items) == [DataNotList EXCEPT !.data_is_list = TRUE, !.data = items]

\* the items of standings.json and seeds.json, and those of matches.json
StandingItem(user_id) == [is_object |-> TRUE, user_id |-> user_id]
NoStandingItem == [is_object |-> FALSE, user_id |-> None]
MatchItem(winner_id, loser_id) ==
    [is_object |-> TRUE, winner_id |-> winner_id, loser_id |-> loser_id]
NoMatchItem == [is_object |-> FALSE, winner_id |-> None, loser_id |-> None]

\* a standings list of n entries, the first k of them with a null user id
StandingsOf(n, k) ==
    [i \in 1..n |-> IF i <= k THEN StandingItem(None) ELSE StandingItem("u1")]

\* a list of n matches: s of their winner and loser references name a user
\* ("x") that is in no standing, and the winner of the last z is null
MatchList(n, s, z) ==
    [i \in 1..n |->
        MatchItem(IF 2 * i - 1 <= s THEN "x" ELSE IF i > n - z THEN None ELSE "u1",
                  IF 2 * i <= s THEN "x" ELSE "u1")]

\* the shapes a list file is given beside the lists of the two families
StandingShapes ==
    {AbsentFile, InvalidFile, ArrayFile, NoDataFile, DataNotList, ListFile(<<>>),
     ListFile(<<StandingItem("u1")>>), ListFile(<<NoStandingItem>>)}
SeedShapes ==
    {AbsentFile, ArrayFile, ListFile(<<>>), ListFile(<<NoStandingItem>>)}
MatchShapes ==
    {AbsentFile, InvalidFile, ArrayFile, NoDataFile, DataNotList, ListFile(<<>>),
     ListFile(<<MatchItem("u1", "u1")>>), ListFile(<<NoMatchItem>>)}

\* the event directories: the well-formed ones, over the sizes of the lists,
\* and the ones over the shapes of the files
EventDirs ==
    { [attr |-> AttrObject(ne, "object"),
       matches |-> ListFile(MatchList(n, s, z)),
       seeds |-> ListFile(<<StandingItem("u1")>>),
       standings |-> ListFile(StandingsOf(m, k))] :
          ne \in {"0", "3"},
          n \in 0..MaxMatches, s \in {0, 1, 2}, z \in {0, 1},
          m \in 0..MaxStandings, k \in 0..3 }
    \cup [attr : AttrShapes, matches : MatchShapes, seeds : SeedShapes,
          standings : StandingShapes]

Finding(kind, about) == [kind |-> kind, about |-> about]
If(cond, finding) == IF cond THEN <<finding>> ELSE <<>>

\* validate_attr on an object: the required fields, then place
validate_attr(data) ==
    If(data.num_entrants = "missing", Finding("missing field", "attr.json: num_entrants"))
    \o If(data.place = "absent", Finding("missing field", "attr.json: place"))
    \o If(data.place = "absent", Finding("place is missing", "attr.json"))
    \o If(data.place = "string", Finding("place is not an object", "attr.json"))

\* validate_list_container: `field not in obj` also answers for an array
validate_list_container(data, filename) ==
    If(~data.has_data, Finding("missing field", filename \o ": data"))
    \o If(data.has_data /\ ~data.data_is_list, Finding("data is not a list", filename))

\* one round of the loop over REQUIRED_EVENT_FILES (lines 79-95)
CheckFile(file, filename) ==
    IF ~file.exists THEN <<Finding("missing file", filename)>>
    ELSE IF file.json = "invalid" THEN <<Finding("invalid JSON", filename)>>
    ELSE IF filename = "attr.json" THEN validate_attr(file)
    ELSE validate_list_container(file, filename)

\* the file is in payloads: it exists and holds JSON
Loaded(file) == file.exists /\ file.json # "invalid"

\* payloads.get(filename, {}).get("data", [])
DataOf(file) ==
    IF Loaded(file) /\ file.has_data
    THEN [is_list |-> file.data_is_list, items |-> file.data]
    ELSE [is_list |-> TRUE, items |-> <<>>]

Count(items, Test(_)) == Cardinality({ i \in 1..Len(items) : Test(items[i]) })

\* the places where an AttributeError leaves the function: data.get of
\* validate_attr (line 59) and the three .get("data", []) (lines 102-104) on
\* an array, item.get (lines 116 and 132) on an item that is no object
RaisesAttributeError(dir) ==
    \/ Loaded(dir.attr) /\ dir.attr.json = "array"
    \/ \E f \in {dir.standings, dir.seeds, dir.matches} : Loaded(f) /\ f.json = "array"
    \/ DataOf(dir.standings).is_list
         /\ \E i \in 1..Len(dir.standings.data) : ~dir.standings.data[i].is_object
    \/ DataOf(dir.matches).is_list
         /\ \E i \in 1..Len(dir.matches.data) : ~dir.matches.data[i].is_object

\* should_have_entries (line 108); num_entrants stays None without attr
should_have_entries(dir) ==
    LET num_entrants == IF Loaded(dir.attr) THEN dir.attr.num_entrants ELSE "null"
    IN  ~(isinstance_int(num_entrants) /\ EqualsZero(num_entrants))

\* lines 115-129: the findings about null user ids, as <<errors, warnings>>
MissingUsers(standings) ==
    LET missing_users == Count(standings, LAMBDA item : item.user_id = None)
    IN  IF missing_users = 0 THEN << <<>>, <<>> >>
        ELSE IF RatioExceeds(missing_users, Len(standings), MAX_MISSING_USER_RATIO_ERROR)
        THEN << <<Finding("missing user_id ratio exceeds threshold", "standings.json")>>, <<>> >>
        ELSE << <<>>, <<Finding("missing user_id", "standings.json")>> >>

\* lines 132-145: the findings about null winner and loser ids
MissingMatchIds(matches) ==
    LET missing_total == Count(matches, LAMBDA item : item.winner_id = None)
                           + Count(matches, LAMBDA item : item.loser_id = None)
    IN  IF missing_total = 0 \/ matches = <<>> THEN << <<>>, <<>> >>
        ELSE IF RatioExceeds(missing_total, Len(matches) * 2, MAX_MISSING_MATCH_ID_RATIO_ERROR)
        THEN << <<Finding("missing winner/loser ratio exceeds threshold", "matches.json")>>, <<>> >>
        ELSE << <<>>, <<Finding("missing winner/loser IDs", "matches.json")>> >>

\* a mutant of MismatchIsError: the ratio alone decides
MismatchIsErrorWithoutFloor(missing_in_standings, matches) ==
    RatioExceeds(missing_in_standings, Len(matches) * 2, MAX_MISMATCHED_MATCH_ID_RATIO_ERROR)

\* lines 162-165
MismatchIsError(missing_in_standings, matches) ==
    /\ Len(matches) >= MIN_MATCH_COUNT_FOR_MISMATCH_ERROR
    /\ RatioExceeds(missing_in_standings, Len(matches) * 2, MAX_MISMATCHED_MATCH_ID_RATIO_ERROR)

\* lines 149-172: the winner and loser ids that are in no standing
standing_ids(standings) ==
    { standings[i].user_id : i \in 1..Len(standings) } \ {None}
MissingInStandings(standings, matches) ==
    LET ids == standing_ids(standings)
        missing_in_standings ==
            Count(matches, LAMBDA item : item.winner_id # None /\ item.winner_id \notin ids)
              + Count(matches, LAMBDA item : item.loser_id # None /\ item.loser_id \notin ids)
    IN  IF ids = {} \/ missing_in_standings = 0 THEN << <<>>, <<>> >>
        ELSE IF MismatchIsError(missing_in_standings, matches)
        THEN << <<Finding("match IDs not in standings ratio exceeds threshold", "matches.json")>>, <<>> >>
        ELSE << <<>>, <<Finding("match IDs not in standings", "matches.json")>> >>

\* a mutant of EmptyButExpected: an empty list is reported whatever
\* num_entrants is
EmptyAlways(dir, data, filename) ==
    If(data.is_list /\ data.items = <<>>, Finding("is empty but num_entrants > 0", filename))

\* lines 109-113
EmptyButExpected(dir, data, filename) ==
    If(should_have_entries(dir) /\ data.is_list /\ data.items = <<>>,
       Finding("is empty but num_entrants > 0", filename))

\* validate_event_dir: raised, or returned with errors and warnings
validate_event_dir(dir) ==
    IF RaisesAttributeError(dir)
    THEN [outcome |-> "raised", errors |-> <<>>, warnings |-> <<>>]
    ELSE LET standings == DataOf(dir.standings)
             seeds == DataOf(dir.seeds)
             matches == DataOf(dir.matches)
             nulls == IF standings.is_list THEN MissingUsers(standings.items)
                      ELSE << <<>>, <<>> >>
             ids == IF matches.is_list THEN MissingMatchIds(matches.items)
                    ELSE << <<>>, <<>> >>
             strangers == IF matches.is_list /\ standings.is_list
                          THEN MissingInStandings(standings.items, matches.items)
                          ELSE << <<>>, <<>> >>
         IN  [ outcome |-> "returned",
               errors |->
                   CheckFile(dir.attr, REQUIRED_EVENT_FILES_IN_ORDER[1])
                   \o CheckFile(dir.matches, REQUIRED_EVENT_FILES_IN_ORDER[2])
                   \o CheckFile(dir.seeds, REQUIRED_EVENT_FILES_IN_ORDER[3])
                   \o CheckFile(dir.standings, REQUIRED_EVENT_FILES_IN_ORDER[4])
                   \o EmptyButExpected(dir, standings, "standings.json")
                   \o EmptyButExpected(dir, seeds, "seeds.json")
                   \o nulls[1] \o ids[1] \o strangers[1],
               warnings |->
                   nulls[2] \o ids[2]
                   \o If(matches.is_list /\ standings.is_list /\ standings.items # <<>>
                           /\ matches.items = <<>>,
                         Finding("is empty but standings exist", "matches.json"))
                   \o strangers[2] ]

not_v == <<fvars, svars, wvars, uvars, nvars, mvars, rvars, cvars, gvars, avars>>

\* the command lines: with and without --strict over paths that exist, and
\* one with each of the two paths missing
ValidateArgs ==
    [strict : BOOLEAN, events_root_exists : {TRUE}, tournaments_file_exists : {TRUE}]
    \cup {[strict |-> FALSE, events_root_exists |-> FALSE, tournaments_file_exists |-> TRUE],
          [strict |-> TRUE, events_root_exists |-> TRUE, tournaments_file_exists |-> FALSE]}

ValidateInit ==
    /\ v_pc = "start"
    /\ event_dir \in EventDirs
    /\ v_args \in ValidateArgs
    /\ v_errors = <<>>
    /\ v_warnings = <<>>
    /\ v_exit = NotExited

\* validate_event_dir(event_dir), as the tests call it
ValidateEventDir ==
    /\ v_pc = "start"
    /\ LET r == validate_event_dir(event_dir) IN
       /\ v_pc' = r.outcome
       /\ v_errors' = r.errors
       /\ v_warnings' = r.warnings
    /\ UNCHANGED <<event_dir, v_args, v_exit, not_v>>

\* a mutant of ValidateExitCode: --strict is not looked at
ValidateExitCodeLenient(errors, warnings, strict) == IF errors # <<>> THEN 1 ELSE 0

\* lines 245-259
ValidateExitCode(errors, warnings, strict) ==
    IF errors # <<>> THEN 1
    ELSE IF warnings # <<>> /\ strict THEN 1
    ELSE 0

\* main (lines 231-259): iter_event_dirs yields the directories that hold an
\* attr.json; validate_tournaments_file adds an error for a file not found
ValidateMain ==
    /\ v_pc = "start"
    /\ LET visited == v_args.events_root_exists /\ event_dir.attr.exists
           r == IF visited THEN validate_event_dir(event_dir)
                ELSE [outcome |-> "returned", errors |-> <<>>, warnings |-> <<>>]
           errors == If(~v_args.events_root_exists, Finding("events root not found", "events_root"))
                     \o r.errors
                     \o If(~v_args.tournaments_file_exists, Finding("file not found", "tournaments.jsonl"))
       IN  IF r.outcome = "raised"
           THEN /\ v_errors' = <<>>
                /\ v_warnings' = <<>>
                /\ v_exit' = [code |-> 1, by |-> "exception"]
           ELSE /\ v_errors' = errors
                /\ v_warnings' = r.warnings
                /\ v_exit' = [code |-> ValidateExitCode(errors, r.warnings, v_args.strict),
                              by |-> "returned"]
    /\ v_pc' = "exited"
    /\ UNCHANGED <<event_dir, v_args, not_v>>

InitValidate == FetchInit /\ StoreInit /\ IdleExcept("validate") /\ ValidateInit

NextValidate ==
    \/ ValidateEventDir
    \/ ValidateMain

SpecValidate == InitValidate /\ [][NextValidate]_vars

(***************************************************************************)
(* SpecClean: the store-consistency tools over tournaments.jsonl and the   *)
(* event directories: main of fix_missing_tournaments.py (clean_tournaments *)
(* and the rewrite) and main of fix/check_events_in_tournaments.py.  Of a  *)
(* tournament record the model keeps tournament_id and events, of an event *)
(* event_id and path, of a directory whether it exists and its files.      *)
(***************************************************************************)
\* the largest number of lines of tournaments.jsonl
MaxTournaments == 2

DEFAULT_REQUIRED_FILES == <<"attr.json", "matches.json", "standings.json", "seeds.json">>

\* the events of the records: two with a path, one without ("path" absent)
EventAt1 == [event_id |-> 1, path |-> "p1"]
EventAt2 == [event_id |-> 2, path |-> "p2"]
EventNoPath == [event_id |-> 3, path |-> None]
\* entry["events"]: a list of events, or a value that is no list
EventLists ==
    { <<>>, <<EventAt1>>, <<EventNoPath>>, <<EventAt1, EventAt2>>, <<EventAt2, EventAt1>>,
      <<EventAt1, EventNoPath, EventAt2>> }
TournamentRecord(tournament_id, events_is_list, events) ==
    [tournament_id |-> tournament_id, events_is_list |-> events_is_list, events |-> events]
\* the files: the record of line i has tournament_id i
TournamentFiles ==
    UNION { { [i \in 1..n |-> TournamentRecord(i, f[i].is_list, f[i].events)] :
                f \in [1..n -> [is_list : {TRUE}, events : EventLists]
                                 \cup {[is_list |-> FALSE, events |-> <<>>]}] } :
            n \in 0..MaxTournaments }

\* the directories of the two paths: absent, complete, or without seeds.json
NoDirectory == [is_dir |-> FALSE, files |-> {}]
Complete == [is_dir |-> TRUE, files |-> {"attr.json", "matches.json", "standings.json", "seeds.json"}]
NoSeeds == [is_dir |-> TRUE, files |-> {"attr.json", "matches.json", "standings.json"}]
Disks == { d \in [{"p1", "p2"} -> {NoDirectory, Complete, NoSeeds}] : d["p2"] # NoDirectory }

\* a mutant of check_event: the directory is enough
check_event_DirOnly(disk, event) ==
    IF event.path = None THEN [ok |-> FALSE, reason |-> "event path missing"]
    ELSE IF ~disk[event.path].is_dir THEN [ok |-> FALSE, reason |-> "missing directory"]
    ELSE [ok |-> TRUE, reason |-> ""]

\* check_event (lines 69-86)
check_event(disk, event) ==
    IF event.path = None THEN [ok |-> FALSE, reason |-> "event path missing"]
    ELSE IF ~disk[event.path].is_dir THEN [ok |-> FALSE, reason |-> "missing directory"]
    ELSE IF \E i \in 1..Len(DEFAULT_REQUIRED_FILES) :
                DEFAULT_REQUIRED_FILES[i] \notin disk[event.path].files
    THEN [ok |-> FALSE, reason |-> "missing files"]
    ELSE [ok |-> TRUE, reason |-> ""]

ReportLine(kind, tournament_id, event_id) ==
    [kind |-> kind, tournament_id |-> tournament_id, event_id |-> event_id]

\* the inner loop (lines 119-133): kept_events and the [REMOVE] lines
RECURSIVE EventLoop(_, _, _, _, _)
EventLoop(disk, entry, events, kept_events, lines) ==
    IF events = <<>> THEN [kept_events |-> kept_events, lines |-> lines]
    ELSE IF check_event(disk, Head(events)).ok
    THEN EventLoop(disk, entry, Tail(events), Append(kept_events, Head(events)), lines)
    ELSE EventLoop(disk, entry, Tail(events), kept_events,
                   Append(lines, ReportLine("REMOVE", entry.tournament_id, Head(events).event_id)))

\* the outer loop (lines 108-143)
RECURSIVE CleanLoop(_, _, _, _)
CleanLoop(disk, tournaments, cleaned, report_lines) ==
    IF tournaments = <<>> THEN [cleaned |-> cleaned, report_lines |-> report_lines]
    ELSE LET entry == Head(tournaments) IN
         IF ~entry.events_is_list
         THEN CleanLoop(disk, Tail(tournaments), cleaned,
                        Append(report_lines, ReportLine("Skipped", entry.tournament_id, 0)))
         ELSE LET r == EventLoop(disk, entry, entry.events, <<>>, <<>>) IN
              IF r.kept_events # <<>>
              THEN CleanLoop(disk, Tail(tournaments),
                             Append(cleaned, [entry EXCEPT !.events = r.kept_events]),
                             report_lines \o r.lines)
              ELSE IF r.lines # <<>>
              THEN CleanLoop(disk, Tail(tournaments), cleaned,
                             (report_lines \o r.lines)
                                \o <<ReportLine("DROP", entry.tournament_id, 0)>>)
              ELSE CleanLoop(disk, Tail(tournaments), cleaned, report_lines)

clean_tournaments(tournaments, disk) == CleanLoop(disk, tournaments, <<>>, <<>>)

not_c == <<fvars, svars, wvars, uvars, nvars, mvars, rvars, vvars, gvars, avars>>

CleanInit ==
    /\ c_pc = "start"
    /\ c_file \in TournamentFiles
    /\ c_disk \in Disks
    /\ c_args \in [dry_run : BOOLEAN, apply : BOOLEAN, token : BOOLEAN]
    /\ c_before = c_file
    /\ c_tool = "none"
    /\ c_result = <<>>
    /\ c_report = <<>>
    /\ c_wrote = FALSE

\* a mutant of CleanWrites: --dry-run is not looked at
CleanWritesInDryRun(dry_run, cleaned, tournaments) == cleaned # tournaments

\* lines 185-193 of fix_missing_tournaments.py: neither the dry run nor the
\* consistent store reaches write_jsonl
CleanWrites(dry_run, cleaned, tournaments) == ~dry_run /\ cleaned # tournaments

\* main of fix_missing_tournaments.py (lines 168-194)
CleanMain ==
    /\ c_pc = "start"
    /\ LET tournaments == c_file
           r == clean_tournaments(tournaments, c_disk)
           writes == CleanWrites(c_args.dry_run, r.cleaned, tournaments)
       IN  /\ c_result' = r.cleaned
           /\ c_report' = r.report_lines
           /\ c_wrote' = writes
           /\ c_file' = IF writes THEN r.cleaned ELSE c_file
    /\ c_pc' = "done"
    /\ c_tool' = "clean"
    /\ UNCHANGED <<c_disk, c_args, c_before, not_c>>

\* build_event_index (lines 107-117): the paths of the registered events
build_event_index(tournaments) ==
    UNION { IF tournaments[i].events_is_list
            THEN { tournaments[i].events[j].path : j \in 1..Len(tournaments[i].events) }
            ELSE {} : i \in 1..Len(tournaments) }
      \ {None}

\* iter_event_dirs and lines 204-234: the directories with an attr.json whose
\* path no event has, in the order of the glob; the attr.json of p1 names
\* event 1, the one of p2 holds no integer event_id
MissingEvents(tournaments, disk) ==
    SelectSeq(<<"p1", "p2">>,
              LAMBDA p : /\ disk[p].is_dir
                         /\ "attr.json" \in disk[p].files
                         /\ p \notin build_event_index(tournaments))
EventIdOfAttr(path) == IF path = "p1" THEN 1 ELSE 0

\* what fetch_tournament_id gives for an event: a RuntimeError, no id, the id
\* of the first record, or an id no record has
FetchedTournament == {"RuntimeError", "no id", "1", "9"}
TournamentIdOf(fetched) == IF fetched = "1" THEN 1 ELSE 9

\* tournaments_by_id (lines 256-258): the index of the last record of the id
IndexById(tournaments, tournament_id) ==
    LET at == { i \in 1..Len(tournaments) : tournaments[i].tournament_id = tournament_id }
    IN  IF at = {} THEN 0 ELSE CHOOSE i \in at : \A j \in at : j <= i

\* lines 261-300 for one missing event: the tournaments after it, whether it
\* was an update, or an exception from the loop over events that is no list
AddEvent(tournaments, path, fetched) ==
    LET event_id == EventIdOfAttr(path)
        same == [raised |-> FALSE, updated |-> FALSE, tournaments |-> tournaments]
        at == IndexById(tournaments, TournamentIdOf(fetched))
        event_payload == [event_id |-> event_id, path |-> path]
    IN  IF event_id = 0 \/ fetched \in {"RuntimeError", "no id"} THEN same
        ELSE IF at = 0
        THEN [raised |-> FALSE, updated |-> TRUE,
              tournaments |-> Append(tournaments,
                  TournamentRecord(TournamentIdOf(fetched), TRUE, <<event_payload>>))]
        ELSE IF ~tournaments[at].events_is_list THEN [same EXCEPT !.raised = TRUE]
        ELSE IF \E j \in 1..Len(tournaments[at].events) :
                   \/ tournaments[at].events[j].event_id = event_id
                   \/ tournaments[at].events[j].path = path
        THEN same
        ELSE [raised |-> FALSE, updated |-> TRUE,
              tournaments |-> [tournaments EXCEPT ![at].events = Append(@, event_payload)]]

RECURSIVE AddLoop(_, _, _, _)
AddLoop(tournaments, missing_events, fetched, updated) ==
    IF missing_events = <<>>
    THEN [raised |-> FALSE, updated |-> updated, tournaments |-> tournaments]
    ELSE LET r == AddEvent(tournaments, Head(missing_events), fetched) IN
         IF r.raised THEN r
         ELSE AddLoop(r.tournaments, Tail(missing_events), fetched, updated \/ r.updated)

\* main of fix/check_events_in_tournaments.py (lines 185-312)
CheckEventsMain(fetched) ==
    /\ c_pc = "start"
    /\ LET tournaments == c_file
           missing_events == MissingEvents(tournaments, c_disk)
           r == IF missing_events = <<>> \/ ~c_args.apply \/ ~c_args.token
                THEN [raised |-> FALSE, updated |-> FALSE, tournaments |-> tournaments]
                ELSE AddLoop(tournaments, missing_events, fetched, FALSE)
           writes == ~r.raised /\ r.updated /\ ~c_args.dry_run
       IN  /\ c_result' = r.tournaments
           /\ c_report' = [i \in 1..Len(missing_events) |->
                              ReportLine("unregistered", 0, EventIdOfAttr(missing_events[i]))]
           /\ c_wrote' = writes
           /\ c_file' = IF writes THEN r.tournaments ELSE c_file
    /\ c_pc' = "done"
    /\ c_tool' = "check"
    /\ UNCHANGED <<c_disk, c_args, c_before, not_c>>

InitClean == FetchInit /\ StoreInit /\ IdleExcept("clean") /\ CleanInit

NextClean ==
    \/ CleanMain
    \/ \E fetched \in FetchedTournament : CheckEventsMain(fetched)

SpecClean == InitClean /\ [][NextClean]_vars

(***************************************************************************)
(* SpecRefresh: the user refresh (fetch/refresh_users.py), run after run    *)
(* over one users.jsonl that is also the output file.  The progress lines   *)
(* and the periodic pause are left out; the sleeps of the retries are kept  *)
(* in the log.                                                              *)
(***************************************************************************)

\* --user_retries
MaxUserRetries == 2

\* --retry_delay, its default (seconds)
DEFAULT_RETRY_DELAY == 5

\* what the remote answers to one request: a user, a null, or a reply that
\* requests.post / raise_for_status turn into a RequestException
NotFoundShapes == {"user null", "data null"}
FailedShapes == {"429 Too Many Requests", "ConnectionError"}
Replies ==
    UNION { [shape : {"user"}, user_id : {u}, fields : FieldsOf(u)] : u \in UserIds }
        \cup [shape : NotFoundShapes \cup FailedShapes, user_id : {0}, fields : {"None"}]

\* what a call of fetch_data_with_retries ends with: the reply returned, or
\* Exception("Max retries exceeded")
MaxRetriesExceeded == [shape |-> "Max retries exceeded", user_id |-> 0, fields |-> "None"]
RaisedShapes == {"Max retries exceeded"}

\* fetch_user_and_player_details, after the response is in (lines 40-51)
fetch_user_and_player_details(response) ==
    IF response.shape \in NotFoundShapes THEN "UserNotFoundError" ELSE "returned"

\* refresh_user_record (lines 54-96): the record built from the details
refresh_user_record(existing_record, response) ==
    [user_id |-> existing_record.user_id, player_id |-> existing_record.player_id,
     fields |-> response.fields, version |-> "none"]

\* how the try of lines 298-333 leaves.  No call under it raises FetchError:
\* fetch_data_with_retries raises Exception only.
RefreshOutcome(response) ==
    IF response.shape \in RaisedShapes THEN "Exception"
    ELSE fetch_user_and_player_details(response)

Max3(a, b, c) == IF a >= b /\ a >= c THEN a ELSE IF b >= c THEN b ELSE c

\* lines 313-317: the backoff after a rate limit
Backoff(args, consecutive_rate_limits) ==
    Max3(args.retry_delay * consecutive_rate_limits, args.sleep * 5, 10)

\* a mutant of TryRefresh: UserNotFoundError is handled as any other exception
TryRefresh_NotFoundFails(record, response, loop, args) ==
    LET outcome == RefreshOutcome(response) IN
    CASE outcome = "returned" ->
            [loop EXCEPT !.refreshed_record = refresh_user_record(record, response),
                         !.is_record = FALSE,
                         !.consecutive_rate_limits = 0,
                         !.success = TRUE, !.broke = TRUE]
      [] outcome = "Too Many Requests" ->
            [loop EXCEPT !.consecutive_rate_limits = @ + 1,
                         !.slept = Backoff(args, loop.consecutive_rate_limits + 1)]
      [] OTHER -> [loop EXCEPT !.consecutive_rate_limits = 0, !.broke = TRUE]

\* the try and its handlers (lines 298-333), as the call of
\* refresh_user_record ends
TryRefresh(record, response, loop, args) ==
    LET outcome == RefreshOutcome(response) IN
    CASE outcome = "returned" ->
            [loop EXCEPT !.refreshed_record = refresh_user_record(record, response),
                         !.is_record = FALSE,
                         !.consecutive_rate_limits = 0,
                         !.success = TRUE, !.broke = TRUE]
      [] outcome = "UserNotFoundError" ->
            [loop EXCEPT !.refreshed_record = record,
                         !.is_record = TRUE,
                         !.consecutive_rate_limits = 0,
                         !.success = TRUE, !.broke = TRUE]
      [] outcome = "Too Many Requests" ->
            [loop EXCEPT !.consecutive_rate_limits = @ + 1,
                         !.slept = Backoff(args, loop.consecutive_rate_limits + 1)]
      [] OTHER -> [loop EXCEPT !.consecutive_rate_limits = 0, !.broke = TRUE]

\* lines 291-294: the loop variables when the user at the head of targets
\* begins; consecutive_rate_limits is carried over
FreshLoop(us, targets, loop) ==
    IF targets = <<>> THEN [NoLoop EXCEPT !.consecutive_rate_limits = loop.consecutive_rate_limits]
    ELSE [NoLoop EXCEPT !.refreshed_record = us[Head(targets)],
                        !.consecutive_rate_limits = loop.consecutive_rate_limits]

PlayerOf(user_id) == user_id + 10

\* users.jsonl as the tools leave it: every user once, stamped with the version
RefreshFiles ==
    UNION { { f \in [1..n -> UNION { [user_id : {u}, player_id : {PlayerOf(u)},
                                       fields : FieldsOf(u), version : {JSON_VERSION}]
                                      : u \in UserIds }] :
                \A i, j \in 1..n : f[i].user_id = f[j].user_id => i = j }
            : n \in 0..MaxUsers }

\* the checkpoint an earlier run left: nothing, or a record of user 1
Checkpoints ==
    {<<>>} \cup { << [user_id |-> 1, player_id |-> PlayerOf(1), fields |-> f,
                      version |-> JSON_VERSION] >> : f \in FieldsOf(1) }

\* the cursor file: absent, not a number, or an index
Cursors ==
    {NoCursor, [exists |-> TRUE, valid |-> FALSE, value |-> 0]}
        \cup [exists : {TRUE}, valid : {TRUE}, value : 0..MaxUsers]

\* the command lines: one family over the retries, one over the window, the
\* cursor and the checkpoint
RefreshArgs ==
    [user_retries : 0..MaxUserRetries, max_retries : {1, 2},
     retry_delay : {DEFAULT_RETRY_DELAY}, sleep : {0},
     max_users : {0}, cursor_path : {FALSE}, checkpoint_path : {FALSE},
     force_refresh : {FALSE}]
    \cup
    { a \in [user_retries : {MaxUserRetries}, max_retries : {1},
             retry_delay : {DEFAULT_RETRY_DELAY}, sleep : {0},
             max_users : 0..MaxUsers, cursor_path : BOOLEAN,
             checkpoint_path : BOOLEAN, force_refresh : BOOLEAN] :
        a.force_refresh => a.checkpoint_path }

\* lines 204-233: user_order, the cursor and target_user_ids
user_order(file) == [i \in 1..Len(file) |-> file[i].user_id]

\* lines 207-219
start_index(total_users, args, cursor) ==
    LET read == IF args.cursor_path /\ cursor.exists /\ cursor.valid
                THEN cursor.value ELSE 0
    IN  read % total_users

\* lines 221-223
target_count(total_users, args) ==
    IF args.max_users > 0
    THEN IF args.max_users < total_users THEN args.max_users ELSE total_users
    ELSE total_users

\* lines 225-229
target_user_ids(order, args, cursor) ==
    LET total_users == Len(order)
        start == start_index(total_users, args, cursor)
    IN  [offset \in 1..target_count(total_users, args) |->
            order[((start + offset - 1) % total_users) + 1]]

\* a mutant of next_index: the cursor stays where the run began
next_index_Stays(order, args, cursor) == start_index(Len(order), args, cursor)

\* lines 231-233
next_index(order, args, cursor) ==
    (start_index(Len(order), args, cursor) + target_count(Len(order), args)) % Len(order)

\* a mutant of ApplyCheckpoint: the checkpoint is not applied
ApplyCheckpoint_Never(us, checkpoint_records) == us

\* lines 262-264
ApplyCheckpoint(us, checkpoint_records) ==
    [u \in DOMAIN us |-> IF u \in DOMAIN checkpoint_records
                         THEN checkpoint_records[u] ELSE us[u]]

\* line 266
skip_existing(args) == args.checkpoint_path /\ ~args.force_refresh

not_g == <<fvars, svars, wvars, uvars, nvars, mvars, rvars, vvars, cvars, avars>>

RefreshInit ==
    /\ g_pc = "start"
    /\ g_file \in RefreshFiles
    /\ g_args \in RefreshArgs
    /\ g_cursor \in IF g_args.cursor_path THEN Cursors ELSE {NoCursor}
    /\ g_checkpoint \in IF g_args.checkpoint_path THEN Checkpoints ELSE {<<>>}
    /\ g_users = <<>> /\ g_checkpoint_records = <<>> /\ g_processed = {}
    /\ g_targets = <<>> /\ g_loop = NoLoop
    /\ g_failures = {} /\ g_missing = {} /\ g_log = <<>>
    /\ g_out = <<>> /\ g_wrote = FALSE
    /\ g_runs = 1 /\ g_windows = <<>>

\* lines 196-284: the users are read, the targets chosen, the checkpoint applied
RefreshStart ==
    /\ g_pc = "start"
    /\ LET us == read_users_jsonl(g_file)
           loaded == IF g_args.checkpoint_path THEN read_users_jsonl(g_checkpoint)
                     ELSE EmptyDict
           forced == g_args.force_refresh /\ loaded # EmptyDict
           checkpoint_records == IF forced THEN EmptyDict ELSE loaded
       IN
       IF us = EmptyDict
       THEN /\ g_pc' = "done"
            /\ UNCHANGED <<g_users, g_targets, g_loop, g_checkpoint, g_checkpoint_records,
                           g_processed, g_windows>>
       ELSE /\ g_pc' = "loop"
            /\ g_checkpoint' = IF forced THEN <<>> ELSE g_checkpoint
            /\ g_checkpoint_records' = checkpoint_records
            /\ g_users' = ApplyCheckpoint(us, checkpoint_records)
            /\ g_processed' = IF skip_existing(g_args) THEN DOMAIN checkpoint_records ELSE {}
            /\ g_targets' = target_user_ids(user_order(g_file), g_args, g_cursor)
            /\ g_windows' = Append(g_windows, g_targets')
            /\ g_loop' = FreshLoop(g_users', g_targets', NoLoop)
    /\ UNCHANGED <<g_file, g_args, g_cursor, g_failures, g_missing, g_log, g_out, g_wrote,
                   g_runs, not_g>>

\* lines 287-289: a target the checkpoint already holds is skipped
RefreshSkip ==
    /\ g_pc = "loop"
    /\ g_targets # <<>>
    /\ skip_existing(g_args) /\ Head(g_targets) \in g_processed
    /\ g_targets' = Tail(g_targets)
    /\ g_loop' = FreshLoop(g_users, g_targets', g_loop)
    /\ UNCHANGED <<g_pc, g_file, g_args, g_cursor, g_checkpoint, g_users,
                   g_checkpoint_records, g_processed, g_failures, g_missing, g_log,
                   g_out, g_wrote, g_runs, g_windows, not_g>>

\* one request of fetch_data_with_retries (utils.py lines 186-197) under the
\* while loop of main (lines 296-333): a failed reply is slept over with the
\* flat retry delay and asked again; the reply returned, or the exception
\* after the last retry, ends the call and main's try
RefreshRequest(reply) ==
    /\ g_pc = "loop"
    /\ g_targets # <<>>
    /\ ~(skip_existing(g_args) /\ Head(g_targets) \in g_processed)
    /\ ~g_loop.broke
    /\ g_loop.in_call \/ g_loop.user_attempt < g_args.user_retries
    /\ reply.shape = "user" => reply.user_id = Head(g_targets)
    /\ LET user_id == Head(g_targets)
           entered == IF g_loop.in_call THEN [g_loop EXCEPT !.slept = 0]
                      ELSE [g_loop EXCEPT !.user_attempt = @ + 1, !.in_call = TRUE,
                                          !.attempt = 0, !.slept = 0]
           failed == reply.shape \in FailedShapes
           retried == [entered EXCEPT !.attempt = @ + 1, !.slept = g_args.retry_delay]
           exhausted == retried.attempt >= g_args.max_retries
           response == IF failed THEN MaxRetriesExceeded ELSE reply
           ended == [(IF failed THEN retried ELSE entered) EXCEPT !.in_call = FALSE]
           after == IF failed /\ ~exhausted THEN retried
                    ELSE TryRefresh(g_users[user_id], response, ended, g_args)
           outcome == IF failed /\ ~exhausted THEN "retried" ELSE RefreshOutcome(response)
       IN
       /\ g_loop' = after
       /\ g_missing' = IF outcome = "UserNotFoundError"
                       THEN g_missing \cup {user_id} ELSE g_missing
       /\ g_log' = Append(g_log, [user_id |-> user_id, shape |-> reply.shape,
                                  outcome |-> outcome, slept |-> after.slept])
    /\ UNCHANGED <<g_pc, g_file, g_args, g_cursor, g_checkpoint, g_users,
                   g_checkpoint_records, g_processed, g_targets, g_failures,
                   g_out, g_wrote, g_runs, g_windows, not_g>>

\* lines 335-344: the while loop is left, the user is settled
RefreshSettle ==
    /\ g_pc = "loop"
    /\ g_targets # <<>>
    /\ ~(skip_existing(g_args) /\ Head(g_targets) \in g_processed)
    /\ ~g_loop.in_call
    /\ g_loop.broke \/ g_loop.user_attempt >= g_args.user_retries
    /\ LET user_id == Head(g_targets) IN
       IF ~g_loop.success
       THEN /\ g_failures' = g_failures \cup {user_id}
            /\ UNCHANGED <<g_users, g_processed, g_checkpoint>>
       ELSE /\ g_users' = [g_users EXCEPT ![user_id] = g_loop.refreshed_record]
            /\ g_processed' = g_processed \cup {user_id}
            /\ g_checkpoint' =
                  IF g_args.checkpoint_path /\ ~g_loop.is_record
                  THEN Append(g_checkpoint, WithVersion(g_loop.refreshed_record))
                  ELSE g_checkpoint
            /\ UNCHANGED g_failures
    /\ g_targets' = Tail(g_targets)
    /\ g_loop' = FreshLoop(g_users', g_targets', g_loop)
    /\ UNCHANGED <<g_pc, g_file, g_args, g_cursor, g_checkpoint_records, g_missing, g_log,
                   g_out, g_wrote, g_runs, g_windows, not_g>>

\* lines 367-377: final_records are written with the version, then the cursor
RefreshWrite ==
    /\ g_pc = "loop"
    /\ g_targets = <<>>
    /\ LET order == user_order(g_file) IN
       /\ g_out' = [i \in 1..Len(order) |-> WithVersion(g_users[order[i]])]
       /\ g_cursor' = IF g_args.cursor_path
                      THEN [exists |-> TRUE, valid |-> TRUE,
                            value |-> next_index(order, g_args, g_cursor)]
                      ELSE g_cursor
    /\ g_wrote' = TRUE
    /\ g_pc' = "done"
    /\ UNCHANGED <<g_file, g_args, g_checkpoint, g_users, g_checkpoint_records,
                   g_processed, g_targets, g_loop, g_failures, g_missing, g_log,
                   g_runs, g_windows, not_g>>

\* the run has ended and the tool is started again with the same command
\* line: the output file is the users.jsonl of the next run
RefreshAgain ==
    /\ g_pc = "done"
    /\ g_runs < MaxUsers
    /\ g_pc' = "start"
    /\ g_runs' = g_runs + 1
    /\ g_file' = IF g_wrote THEN g_out ELSE g_file
    /\ g_users' = <<>> /\ g_checkpoint_records' = <<>> /\ g_processed' = {}
    /\ g_targets' = <<>> /\ g_loop' = NoLoop
    /\ g_failures' = {} /\ g_missing' = {} /\ g_log' = <<>>
    /\ g_out' = <<>> /\ g_wrote' = FALSE
    /\ UNCHANGED <<g_args, g_cursor, g_checkpoint, g_windows, not_g>>

InitRefresh == FetchInit /\ StoreInit /\ IdleExcept("refresh") /\ RefreshInit

NextRefresh ==
    \/ RefreshStart
    \/ RefreshSkip
    \/ \E reply \in Replies : RefreshRequest(reply)
    \/ RefreshSettle
    \/ RefreshWrite
    \/ RefreshAgain

SpecRefresh == InitRefresh /\ [][NextRefresh]_vars

(***************************************************************************)
(* SpecAuth: the authorization loops of extend_user_info (fetch/download.py) *)
(* and refresh_user_record (fetch/refresh_users.py)                          *)
(***************************************************************************)

\* the entries of one authorization list
MaxAuths == 2

AuthTypes == {"TWITTER", "DISCORD", "TWITCH"}
AuthEntries ==
    [type : AuthTypes, externalId : {"id1"}, externalUsername : {"name1"}]
        \cup [type : AuthTypes, externalId : {"id2"}, externalUsername : {"name2"}]
Authorizations ==
    {[null |-> TRUE, list |-> <<>>]}
        \cup UNION { [null : {FALSE}, list : [1..n -> AuthEntries]] : n \in 0..MaxAuths }

\* a mutant of AuthLoop: a provider's fields are set by its first entry only
RECURSIVE AuthLoop_FirstWins(_, _)
AuthLoop_FirstWins(authorizations, handles) ==
    IF authorizations = <<>> THEN handles
    ELSE LET auth == Head(authorizations) IN
         AuthLoop_FirstWins(Tail(authorizations),
             IF auth.type = "TWITTER" /\ handles.x_id = "None"
             THEN [handles EXCEPT !.x_id = auth.externalId,
                                  !.x_name = auth.externalUsername]
             ELSE IF auth.type = "DISCORD" /\ handles.discord_id = "None"
             THEN [handles EXCEPT !.discord_id = auth.externalId,
                                  !.discord_name = auth.externalUsername]
             ELSE handles)

\* the for loop over the authorizations (download.py lines 411-417,
\* refresh_users.py lines 75-82): every entry of a provider assigns the fields
RECURSIVE AuthLoop(_, _)
AuthLoop(authorizations, handles) ==
    IF authorizations = <<>> THEN handles
    ELSE LET auth == Head(authorizations) IN
         AuthLoop(Tail(authorizations),
             IF auth.type = "TWITTER"
             THEN [handles EXCEPT !.x_id = auth.externalId,
                                  !.x_name = auth.externalUsername]
             ELSE IF auth.type = "DISCORD"
             THEN [handles EXCEPT !.discord_id = auth.externalId,
                                  !.discord_name = auth.externalUsername]
             ELSE handles)

\* extend_user_info, lines 406-417: the loop runs unless the list is null
HandlesOfDownload(authorizations) ==
    IF authorizations.null THEN NoHandles
    ELSE AuthLoop(authorizations.list, NoHandles)

\* refresh_user_record, lines 70-82: a null list is read as the empty list
HandlesOfRefresh(authorizations) ==
    AuthLoop(IF authorizations.null THEN <<>> ELSE authorizations.list, NoHandles)

not_a == <<fvars, svars, wvars, uvars, nvars, mvars, rvars, vvars, cvars, gvars>>

AuthInit ==
    /\ a_pc = "in"
    /\ a_tool = "none"
    /\ a_authorizations \in Authorizations
    /\ a_stored = NoHandles

\* the download stores a new user
AuthDownload ==
    /\ a_pc = "in"
    /\ a_stored' = HandlesOfDownload(a_authorizations)
    /\ a_tool' = "download"
    /\ a_pc' = "out"
    /\ UNCHANGED <<a_authorizations, not_a>>

\* the refresh rebuilds the record of a user
AuthRefresh ==
    /\ a_pc = "in"
    /\ a_stored' = HandlesOfRefresh(a_authorizations)
    /\ a_tool' = "refresh"
    /\ a_pc' = "out"
    /\ UNCHANGED <<a_authorizations, not_a>>

InitAuth == FetchInit /\ StoreInit /\ IdleExcept("auth") /\ AuthInit

NextAuth == AuthDownload \/ AuthRefresh

SpecAuth == InitAuth /\ [][NextAuth]_vars

(***************************************************************************)
(* Claims about the Paginator and the Retry Gate (checked under SpecFetch) *)
(***************************************************************************)
RECURSIVE Flatten(_)
Flatten(s) == IF s = <<>> THEN <<>> ELSE Head(s).nodes \o Flatten(Tail(s))

LastOf(s) == s[Len(s)]

\* C1: fetch_all_nodes asks for the pages 1, 2, 3, ... in increasing order (a
\* page is asked again only while its request keeps failing), goes on exactly
\* past the pages that held nodes, stops at the first page with zero nodes
\* whatever total the reply declares, and returns the nodes of the pages
\* before it concatenated in page order.
C1_PagesInOrderUntilEmpty ==
    /\ requests # <<>> => requests[1] = 1
    /\ \A i \in 1..(Len(requests) - 1) :
           requests[i + 1] \in {requests[i], requests[i] + 1}
    /\ \A i \in 1..Len(served) : served[i].page = i
    /\ \A i \in 1..(Len(served) - 1) : served[i].nodes # <<>>
    /\ (f_pc = "request" /\ served # <<>>) => LastOf(served).nodes # <<>>
    /\ f_pc = "request" => page_var = Len(served) + 1
    /\ f_pc = "returned" =>
          /\ served # <<>>
          /\ LastOf(served).nodes = <<>>
          /\ all_nodes = Flatten(served)

\* C1 witness: three pages were served, the last one empty, while the last
\* reply declared a total of one page; the nodes of pages 1 and 2 are returned
C1_Witness ==
    /\ f_pc = "returned"
    /\ Len(served) = 3
    /\ response_data = PageEnvelope(<<>>, 1)
    /\ all_nodes = NodesOf(1, 2) \o NodesOf(2, 1)

\* the envelopes in which a key of the path is missing or leads to null
PathMalformed ==
    { r \in MalformedEnvelopes :
        LET d == Descend(r, FullKeys(SeedsKeys)) IN d.st # "ok" \/ d.data.t # "obj" }

\* C2 (the claim as stated): a reply in which a key of the path into the
\* payload is missing or leads nowhere ends the pagination with FetchError.
C2_MalformedIsFetchError ==
    (call_done /\ response_data \in PathMalformed) => f_pc = "FetchError"

\* C3: a call of fetch_data_with_retries makes at most max_retries attempts;
\* every attempt before the last one failed in transport or JSON decoding; the
\* call returns the first JSON reply as it was sent, a null entity included,
\* and raises the exhaustion error exactly when max_retries attempts failed.
C3_RetryGate ==
    /\ Len(outcomes) <= MaxRetries
    /\ \A i \in 1..(Len(outcomes) - 1) : outcomes[i] # "json"
    /\ call_done <=> (outcomes # <<>> /\ LastOf(outcomes) = "json")
    /\ call_done => (sent.kind = "json" /\ response_data = sent.resp)
    /\ attempt = Cardinality({i \in 1..Len(outcomes) : outcomes[i] # "json"})
    /\ f_pc = "Exhausted" <=> (~call_done /\ attempt = MaxRetries)

\* C3 witness: after failed attempts the reply with a null entity is returned
C3_Witness ==
    /\ call_done
    /\ Len(outcomes) = MaxRetries
    /\ outcomes[1] # "json"
    /\ response_data = NullEntity

(***************************************************************************)
(* Claims about the batch tools and the store (checked under Spec)         *)
(***************************************************************************)
\* C4 (the claim as stated): in download_all_tournaments a standings, seeds
\* or sets fetch that exhausts its retries never ends the batch; the loop goes
\* on with the next unit.
C4_ExhaustionKeepsDownloadBatch ==
    ~(/\ last_exit.tool = "download"
      /\ last_exit.cause = "Exhausted"
      /\ last_exit.at \in {"standings", "seeds", "sets"})

\* C5 (the claim as stated): in the two repair loops a FetchError or a retry
\* exhaustion raised while one entry is ingested never ends the batch; it is
\* counted as failed and the later entries are still attempted.
C5_RepairLoopCatchesFailures ==
    ~(/\ last_exit.tool \in RepairTools
      /\ last_exit.cause \in {"FetchError", "Exhausted"})

\* C6 (the claim as stated): after fetch_phase_id raised NoPhaseError for an
\* event, its ingestion goes on with the steps after the seeds: the run is at
\* the sets step of that same event.
C6_NoPhaseIsNotFatal ==
    note.kind = "NoPhaseError" => (mem.pc = "sets" /\ mem.event_id = note.event_id)

\* the files an event's ingestion writes, given what the remote holds for it
FilesDue(e) ==
    {"standings.json", "attr.json"}
        \cup (IF HasPhase(e) THEN {"seeds.json"} ELSE {})
        \cup (IF HasSets(e) THEN {"matches.json"} ELSE {})

Persisted(log, t, e) ==
    \E i \in 1..Len(log) : log[i].tournament_id = t /\ InList(log[i].events, e)

EventFinished(log, filesOf, e) ==
    /\ FilesDue(e) \subseteq filesOf[e]
    /\ Persisted(log, TournamentOf(e), e)

TournamentFinished(log, filesOf, d, t) ==
    /\ Has(d, t)
    /\ \A i \in 1..Len(Get(d, t)) : EventFinished(log, filesOf, Get(d, t)[i])

\* C7 (the claim as stated): whenever an id is appended to a completion log,
\* the unit it names has fully finished: the files of the event (of every
\* event of the tournament) are written and the tournament's record with the
\* event is in the tournaments log, so that a kill right after the append
\* leaves the log naming finished units only.
C7_DoneMeansFinished ==
    [][ /\ (done_events_file' # done_events_file /\ mem.has_tid) =>
              EventFinished(tournaments_file', event_files', mem.event_id)
        /\ done_file' # done_file =>
              TournamentFinished(tournaments_file', event_files',
                                 mem.tournaments, mem.tournament_id) ]_vars

\* C8 (the claim as stated): while a tool runs, every id of the completion
\* log it loaded at its start, the ids appended by earlier runs included, is a
\* member of its completion set (and the unit is therefore skipped).
C8_DoneIdsAreLoaded ==
    /\ mem.tool = "download" =>
          \A i \in 1..Len(done_file) : PyInt(done_file[i]) \in mem.done_tournaments
    /\ mem.tool \in RepairTools =>
          \A i \in 1..Len(done_events_file) :
              PyInt(done_events_file[i]) \in mem.done_events

NoDuplicates(evs) == \A i, j \in 1..Len(evs) : evs[i] = evs[j] => i = j

\* C9: every event list of a tournament, in memory and in the tournaments
\* log, holds each event id at most once, whatever was ingested before and
\* however often.
C9_NoDuplicateEvents ==
    /\ \A i \in 1..Len(mem.tournaments) : NoDuplicates(mem.tournaments[i].events)
    /\ \A i \in 1..Len(tournaments_file) : NoDuplicates(tournaments_file[i].events)

\* C9 witness: in a later run an event was ingested again whose id was
\* already in the list its tournament's record was loaded with
C9_Witness ==
    /\ runs > 1
    /\ note.kind = "listed"
    /\ Persisted(tournaments_file, TournamentOf(note.event_id), note.event_id)
    /\ Has(mem.tournaments, TournamentOf(note.event_id))
    /\ InList(Get(mem.tournaments, TournamentOf(note.event_id)), note.event_id)

\* C10 (the claim as stated): when a repair batch has returned, the
\* tournaments log holds, for every event that process_event ingested into a
\* tournament the store did not know, that tournament with the event in its
\* event list.
C10_NewTournamentIsPersisted ==
    (last_exit.tool \in RepairTools /\ last_exit.cause = "returned") =>
        \A e \in new_ingested : Persisted(tournaments_file, TournamentOf(e), e)

(***************************************************************************)
(* Claims about the full rewrite of a log (checked under SpecWrite)        *)
(***************************************************************************)
\* C11 (the claim as stated): if the process is terminated at any point of a
\* full rewrite, the file holds either the complete previous contents or the
\* complete new contents.
C11_RewriteIsAtomic ==
    w_pc = "killed" => w_file \in {w_old, Lines(w_data)}

(***************************************************************************)
(* Claims about the users store (checked under SpecUsers)                  *)
(***************************************************************************)
IdsOfFile(file) == { file[i].user_id : i \in 1..Len(file) }

\* C12: after a call of extend_user_info every user id that was present keeps
\* its record in the users map, whatever fields came in for it; users.jsonl
\* keeps its lines and gains lines only for ids that were not present, one
\* line per such id; the ids added to the map are the ids of those lines.
C12_ExistingUsersUnchanged ==
    /\ \A id \in DOMAIN u_before : id \in DOMAIN users /\ users[id] = u_before[id]
    /\ Len(users_file) >= Len(u_file_before)
    /\ SubSeq(users_file, 1, Len(u_file_before)) = u_file_before
    /\ \A i \in (Len(u_file_before) + 1)..Len(users_file) :
           /\ users_file[i].user_id \notin DOMAIN u_before
           /\ users_file[i].user_id \notin IdsOfFile(u_file_before)
           /\ \A j \in (Len(u_file_before) + 1)..Len(users_file) :
                  users_file[j].user_id = users_file[i].user_id => i = j
    /\ DOMAIN users \ DOMAIN u_before =
           IdsOfFile(users_file) \ IdsOfFile(u_file_before)

\* C12 witness: a call brought a user id that was present, with fields other
\* than the stored ones, together with a new user
C12_Witness ==
    /\ \E i \in 1..Len(u_batch) :
           /\ u_batch[i].user_id \in DOMAIN u_before
           /\ u_batch[i].fields # u_before[u_batch[i].user_id].fields
    /\ Len(users_file) > Len(u_file_before)
    /\ u_file_before # <<>>

(***************************************************************************)
(* Claims about name normalization (checked under SpecNames)               *)
(***************************************************************************)
\* C17 (the claim as stated): normalize(" Foo/Bar ") == normalize("_foo-bar").
C17_FooBarEquivalent ==
    (n_pc # "in" /\ n_in = NameFooBar /\ n_other = NameFooBarNormal) =>
        n_once = n_other_once

\* C17 (amended): a space, at the end of the name as anywhere else, counts
\* as the underscore it is replaced by:
\* normalize(" Foo/Bar ") == normalize("_foo-bar_") == "_foo-bar_".
C17_FooBarTrailingEquivalent ==
    (n_pc # "in" /\ n_in = NameFooBar /\ n_other = NameFooBarTrailing) =>
        (n_once = n_other_once /\ n_once = NameFooBarTrailing)

\* C17 witness: both names of the amended equation were normalized
C17_Witness ==
    /\ n_pc = "once"
    /\ n_in = NameFooBar
    /\ n_other = NameFooBarTrailing
    /\ n_once # n_in

\* C18: normalize_name(normalize_name(x)) == normalize_name(x) for every name x.
C18_NormalizeIdempotent ==
    n_pc = "twice" => n_twice = n_once

\* C18 witness: a name with a space, a fullwidth solidus and a sharp s, which
\* normalization changes, was normalized twice
C18_Witness ==
    /\ n_pc = "twice"
    /\ n_in = <<" ", "U+FF0F", "U+00DF">>
    /\ n_once = <<"_", "-", "s", "s">>

(***************************************************************************)
(* Claims about the match derivation (checked under SpecMatches)           *)
(***************************************************************************)
\* the nodes that are persisted, in order: matches_json[i] is the match of
\* PersistedNodes[i]
PersistedNodes == SelectSeq(m_nodes, LAMBDA node : ~Skipped(node))

Max(a, b) == IF a >= b THEN a ELSE b
Min(a, b) == IF a <= b THEN a ELSE b

\* C19: for every persisted match whose two scores differ (null counting as
\* 0) the winner is the entrant of the slot with the greater score, the loser
\* the other one, winner_score is the greater and loser_score the smaller
\* score.
C19_WinnerHasGreaterScore ==
    m_pc = "written" =>
        /\ Len(matches_json) = Len(PersistedNodes)
        /\ \A i \in 1..Len(PersistedNodes) :
               LET slot0 == PersistedNodes[i].slots.list[1]
                   slot1 == PersistedNodes[i].slots.list[2]
                   s0 == ScoreOf(slot0)
                   s1 == ScoreOf(slot1)
                   m == matches_json[i]
               IN  s0 # s1 =>
                     /\ m.winner_score = Max(s0, s1)
                     /\ m.loser_score = Min(s0, s1)
                     /\ m.winner_score >= m.loser_score
                     /\ m.winner_id = UserOf((IF s0 > s1 THEN slot0 ELSE slot1).entrant)
                     /\ m.loser_id = UserOf((IF s0 > s1 THEN slot1 ELSE slot0).entrant)

\* C19 witness: the match with the scores (3, 1) was written with
\* winner_score 3 and loser_score 1, the winner being the entrant of slot 0
C19_Witness ==
    /\ m_pc = "written"
    /\ m_nodes = << [slots |-> [present |-> TRUE, list |->
                        << [entrant |-> "e1", standing |-> Score(3)],
                           [entrant |-> "e2", standing |-> Score(1)] >>]] >>
    /\ matches_json[1].winner_score = 3
    /\ matches_json[1].loser_score = 1
    /\ matches_json[1].winner_id = "u1"

\* C20 (the claim as stated): when the two scores of a persisted match are
\* equal, the entrant of slot 0 is recorded as the winner and the entrant of
\* slot 1 as the loser.
C20_TieGoesToSlot0 ==
    m_pc = "written" =>
        \A i \in 1..Len(PersistedNodes) :
            LET slot0 == PersistedNodes[i].slots.list[1]
                slot1 == PersistedNodes[i].slots.list[2]
            IN  ScoreOf(slot0) = ScoreOf(slot1) =>
                  /\ matches_json[i].winner_id = UserOf(slot0.entrant)
                  /\ matches_json[i].loser_id = UserOf(slot1.entrant)

\* C21: for every persisted match dq is true exactly when one of the two
\* slot scores (null counting as 0) is negative, cancel is true exactly when
\* both scores are zero and dq is false, and dq and cancel are never both
\* true.
C21_DqAndCancelFlags ==
    m_pc = "written" =>
        /\ Len(matches_json) = Len(PersistedNodes)
        /\ \A i \in 1..Len(PersistedNodes) :
               LET s0 == ScoreOf(PersistedNodes[i].slots.list[1])
                   s1 == ScoreOf(PersistedNodes[i].slots.list[2])
                   m == matches_json[i]
               IN  /\ m.dq <=> (s0 < 0 \/ s1 < 0)
                   /\ m.dq <=> (m.winner_score < 0 \/ m.loser_score < 0)
                   /\ m.cancel <=> (s0 = 0 /\ s1 = 0 /\ ~m.dq)
                   /\ ~(m.dq /\ m.cancel)

\* C21 witness: a match with the scores (0, -1) was written with dq and
\* without cancel
C21_Witness ==
    /\ m_pc = "written"
    /\ Len(PersistedNodes) = 1
    /\ ScoreOf(PersistedNodes[1].slots.list[1]) = 0
    /\ ScoreOf(PersistedNodes[1].slots.list[2]) = -1
    /\ matches_json[1].dq
    /\ ~matches_json[1].cancel

\* C21 witness of the other flag: a match with the scores (0, null) was
\* written with cancel and without dq
C21_WitnessCancel ==
    /\ m_pc = "written"
    /\ Len(PersistedNodes) = 1
    /\ PersistedNodes[1].slots.list[1].standing = Score(0)
    /\ PersistedNodes[1].slots.list[2].standing = NullScore
    /\ matches_json[1].cancel
    /\ ~matches_json[1].dq

\* the step just taken was process_event on an entry whose id is absent or
\* not convertible to an integer
UnresolvableId ==
    note.kind \in {"id unresolvable: returned False", "id unresolvable: raised TypeError"}

\* C16 (the claim as stated): on an entry whose id is absent or not
\* convertible to an integer process_event returns, having issued no request
\* and having left the tournaments, the completion set and every file as they
\* were.
C16_UnresolvableIdReturns ==
    [][ UnresolvableId' =>
          /\ note'.kind = "id unresolvable: returned False"
          /\ mem'.tool = mem.tool
          /\ mem'.tournaments = mem.tournaments
          /\ mem'.done_events = mem.done_events
          /\ UNCHANGED <<files, fvars>> ]_vars

\* the part of C16 that holds: whatever the id is that cannot be resolved, no
\* request is issued and no file changes
C16_UnresolvableIdWritesNothing ==
    [][ UnresolvableId' => UNCHANGED <<files, fvars>> ]_vars

(***************************************************************************)
(* Claims about the reconciliation (checked under SpecReconcile)           *)
(***************************************************************************)
LacksName(entry) == ~entry.has_name \/ entry.name = <<>>

NoMatchingDirectory(entry, dirs) ==
    \A d \in dirs : normalize_name(d) # normalize_name(entry.name)

\* the entries a check over dirs has to report, in the order of the list,
\* the nameless ones with the reason nameless
ExpectedMissing(dirs, nameless) ==
    LET sel == SelectSeq(target_events,
                         LAMBDA e : LacksName(e) \/ NoMatchingDirectory(e, dirs))
    IN  [ i \in 1..Len(sel) |->
            WithReason(sel[i], IF LacksName(sel[i]) THEN nameless
                               ELSE "no matching directory") ]

\* the states in which a result of find_missing_events is at hand together
\* with the directories it was computed from
FirstCheckAtHand ==
    \/ r_pc = "fill" /\ r_next = 1
    \/ r_pc = "exited" /\ r_exit.by = "first check"

\* C13 (the claim as stated): find_missing_events returns, in the order of
\* the target list, exactly the entries without a tournament name (reason
\* "name missing") and the entries whose normalized name matches no
\* tournament directory (reason "no matching directory").
C13_FindMissingStated ==
    /\ FirstCheckAtHand => missing_first = ExpectedMissing(tournament_dirs, "name missing")
    /\ (r_pc = "exited" /\ r_exit.by = "recheck") =>
           missing_after = ExpectedMissing(tournament_dirs, "name missing")

\* C13 (amended): the same, the reason of a nameless entry being
\* "tournamentName missing".
C13_FindMissing ==
    /\ FirstCheckAtHand =>
           missing_first = ExpectedMissing(tournament_dirs, "tournamentName missing")
    /\ (r_pc = "exited" /\ r_exit.by = "recheck") =>
           missing_after = ExpectedMissing(tournament_dirs, "tournamentName missing")

\* C13 witness: of two entries the first, "F f", matches the directory "F_f"
\* and is not reported; the second, "F/f", matches none and is
C13_Witness ==
    /\ FirstCheckAtHand
    /\ tournament_dirs = { <<"F", "_", "f">> }
    /\ Len(target_events) = 2
    /\ target_events[1].name = <<"F", " ", "f">>
    /\ Len(missing_first) = 1
    /\ missing_first[1].name = <<"F", "/", "f">>
    /\ missing_first[1].missing_reason = "no matching directory"

\* C14 (the claim as stated): if process_event succeeded for every entry the
\* first check reported, the re-check reports nothing.
C14_ReconciliationClosure ==
    (/\ r_pc = "exited"
     /\ r_exit.by = "recheck"
     /\ r_counts.processed = Len(missing_first)) => missing_after = <<>>

\* C15: the tool exits 0 exactly when a check of the run found nothing, the
\* first one or the re-check after the repair batch; the exit code of a run
\* that returned from main tells whether a discrepancy remains in the store
\* it leaves; and every run that leaves a discrepancy, the run with the fill
\* skipped included, exits 1.
C15_ExitCode ==
    r_pc = "exited" =>
        /\ r_exit.code \in {0, 1}
        /\ r_exit.code = 0 <=>
              \/ r_exit.by = "first check" /\ missing_first = <<>>
              \/ r_exit.by = "recheck" /\ missing_after = <<>>
        /\ r_exit.by \in {"first check", "recheck"} =>
              (r_exit.code = 0 <=>
                   find_missing_events(target_events, tournament_dirs) = <<>>)
        /\ find_missing_events(target_events, tournament_dirs) # <<>> => r_exit.code = 1

\* C15 witness: the first check found a discrepancy, the repair succeeded,
\* the re-check found none and the run exited 0
C15_Witness ==
    /\ r_pc = "exited"
    /\ r_exit = [code |-> 0, by |-> "recheck"]
    /\ missing_first # <<>>
    /\ r_counts.processed > 0

\* C15 witness of the other exit: the fill was skipped, a discrepancy remains
C15_WitnessSkipped ==
    /\ r_pc = "exited"
    /\ r_args.skip_fill
    /\ missing_first # <<>>
    /\ r_exit.code = 1

(***************************************************************************)
(* Claims about the validation (checked under SpecValidate)                *)
(***************************************************************************)
\* the number of findings of a kind in a list of findings
Findings(list, kind) == Cardinality({ i \in 1..Len(list) : list[i].kind = kind })

\* the standings list of the directory and the number of its null user ids,
\* where "data" of standings.json is a list of objects
StandingsListed ==
    /\ Loaded(event_dir.standings)
    /\ event_dir.standings.json = "object"
    /\ event_dir.standings.has_data
    /\ event_dir.standings.data_is_list
NullUserIds ==
    Cardinality({ i \in 1..Len(event_dir.standings.data) :
                    event_dir.standings.data[i].user_id = None })

\* C22: when validate_event_dir returns for a standings list of n > 0 entries
\* of which k have a null user id, then for k > 0 it has reported exactly one
\* finding about the null user ids, an error if k/n is more than 20% (5k > n)
\* and a warning otherwise, and for k = 0 it has reported none.
C22_NullUserIdThreshold ==
    (v_pc = "returned" /\ StandingsListed /\ event_dir.standings.data # <<>>) =>
        LET n == Len(event_dir.standings.data)
            k == NullUserIds
            as_error == Findings(v_errors, "missing user_id ratio exceeds threshold")
            as_warning == Findings(v_warnings, "missing user_id")
        IN  /\ Findings(v_errors, "missing user_id") = 0
            /\ Findings(v_warnings, "missing user_id ratio exceeds threshold") = 0
            /\ (k > 0 /\ 5 * k > n) => (as_error = 1 /\ as_warning = 0)
            /\ (k > 0 /\ 5 * k <= n) => (as_error = 0 /\ as_warning = 1)
            /\ k = 0 => (as_error = 0 /\ as_warning = 0)

\* C22 witness: 3 null user ids among 10 standings were reported as an error
C22_Witness ==
    /\ v_pc = "returned"
    /\ StandingsListed
    /\ Len(event_dir.standings.data) = 10
    /\ NullUserIds = 3
    /\ Findings(v_errors, "missing user_id ratio exceeds threshold") = 1

\* C22 witness of the warning: 1 null user id among 10 standings
C22_WitnessWarning ==
    /\ v_pc = "returned"
    /\ StandingsListed
    /\ Len(event_dir.standings.data) = 10
    /\ NullUserIds = 1
    /\ Findings(v_warnings, "missing user_id") = 1
    /\ Findings(v_errors, "missing user_id ratio exceeds threshold") = 0

\* the matches list of the directory, where "data" of matches.json is a list
MatchesListed ==
    /\ Loaded(event_dir.matches)
    /\ event_dir.matches.json = "object"
    /\ event_dir.matches.has_data
    /\ event_dir.matches.data_is_list
\* the non-null winner and loser ids of the matches that are no user id of a
\* standing
Mismatching ==
    LET ids == { event_dir.standings.data[i].user_id :
                   i \in 1..Len(event_dir.standings.data) } \ {None}
        refs == { <<i, side>> \in (1..Len(event_dir.matches.data)) \X {"winner", "loser"} :
                    LET id == IF side = "winner" THEN event_dir.matches.data[i].winner_id
                              ELSE event_dir.matches.data[i].loser_id
                    IN  id # None /\ id \notin ids }
    IN  [ids |-> ids, count |-> Cardinality(refs)]

\* C23: when validate_event_dir returns for standings with at least one user
\* id and matches of which some non-null winner or loser ids are in no
\* standing, it has reported exactly one finding about them: an error if the
\* event has at least 5 matches and those ids are more than 5% of the slot
\* references (two per match), and a warning, with no error, in every other
\* case.
C23_MismatchFloorAndRatio ==
    (/\ v_pc = "returned" /\ StandingsListed /\ MatchesListed
     /\ Mismatching.ids # {} /\ Mismatching.count > 0) =>
        LET matches == Len(event_dir.matches.data)
            as_error == Findings(v_errors, "match IDs not in standings ratio exceeds threshold")
            as_warning == Findings(v_warnings, "match IDs not in standings")
            is_error == matches >= 5 /\ 100 * Mismatching.count > 5 * (2 * matches)
        IN  /\ is_error => (as_error = 1 /\ as_warning = 0)
            /\ ~is_error => (as_error = 0 /\ as_warning = 1)

\* C23 witness: one id in no standing among 10 matches (5% of 20 references)
\* was reported as a warning although the event has 5 matches or more
C23_Witness ==
    /\ v_pc = "returned" /\ StandingsListed /\ MatchesListed
    /\ Len(event_dir.matches.data) = 10
    /\ Mismatching.ids # {}
    /\ Mismatching.count = 1
    /\ Findings(v_warnings, "match IDs not in standings") = 1
    /\ Findings(v_errors, "match IDs not in standings ratio exceeds threshold") = 0

\* C23 witness of the error: one such id among 5 matches (10%)
C23_WitnessError ==
    /\ v_pc = "returned" /\ StandingsListed /\ MatchesListed
    /\ Len(event_dir.matches.data) = 5
    /\ Mismatching.count = 1
    /\ Findings(v_errors, "match IDs not in standings ratio exceeds threshold") = 1

\* C23 witness below the floor: both ids of the only match are in no standing
\* (100%), reported as a warning
C23_WitnessBelowFloor ==
    /\ v_pc = "returned" /\ StandingsListed /\ MatchesListed
    /\ Len(event_dir.matches.data) = 1
    /\ Mismatching.count = 2
    /\ Findings(v_warnings, "match IDs not in standings") = 1
    /\ Findings(v_errors, "match IDs not in standings ratio exceeds threshold") = 0

\* the declared entrant count is the integer 0 (Python takes the boolean
\* false for an int that equals 0); it is unknown without a loaded attr.json
DeclaredZero ==
    /\ Loaded(event_dir.attr)
    /\ event_dir.attr.json = "object"
    /\ event_dir.attr.num_entrants \in {"0", "False"}
\* the list validate_event_dir takes for the data of a file is empty: the
\* file is absent or no JSON, or has no "data", or "data" is the empty list
EmptyList(file) ==
    \/ ~Loaded(file)
    \/ ~file.has_data
    \/ file.data_is_list /\ file.data = <<>>

\* C24: when validate_event_dir returns, it has reported standings (and
\* likewise seeds) as empty, as an error, exactly when the list is empty and
\* the declared entrant count is not the integer 0: nonzero, or unknown
\* (missing, null, not an integer, or attr.json not loaded).
C24_EmptyListsAreErrors ==
    v_pc = "returned" =>
        /\ Finding("is empty but num_entrants > 0", "standings.json") \in
              { v_errors[i] : i \in 1..Len(v_errors) }
             <=> (EmptyList(event_dir.standings) /\ ~DeclaredZero)
        /\ Finding("is empty but num_entrants > 0", "seeds.json") \in
              { v_errors[i] : i \in 1..Len(v_errors) }
             <=> (EmptyList(event_dir.seeds) /\ ~DeclaredZero)
        /\ Findings(v_warnings, "is empty but num_entrants > 0") = 0

\* C24 witness: with num_entrants missing from attr.json the empty standings
\* list was reported
C24_Witness ==
    /\ v_pc = "returned"
    /\ event_dir.attr.json = "object"
    /\ event_dir.attr.num_entrants = "missing"
    /\ event_dir.standings = ListFile(<<>>)
    /\ Finding("is empty but num_entrants > 0", "standings.json") \in
          { v_errors[i] : i \in 1..Len(v_errors) }

\* C24 witness of the other case: with num_entrants 0 the empty standings and
\* seeds lists were not reported
C24_WitnessZero ==
    /\ v_pc = "returned"
    /\ event_dir.attr.json = "object"
    /\ event_dir.attr.num_entrants = "0"
    /\ event_dir.standings = ListFile(<<>>)
    /\ event_dir.seeds = ListFile(<<>>)
    /\ Findings(v_errors, "is empty but num_entrants > 0") = 0

\* the files of the directory by name
FileNamed(filename) ==
    CASE filename = "attr.json" -> event_dir.attr
      [] filename = "matches.json" -> event_dir.matches
      [] filename = "seeds.json" -> event_dir.seeds
      [] filename = "standings.json" -> event_dir.standings

\* C25 (the claim as stated): when validate_event_dir returns, it has reported
\* a "missing file" error for every required file that is absent, and no
\* warning is about an absent file.
C25_AbsentFileIsErrorOnly ==
    v_pc = "returned" =>
        \A filename \in {"attr.json", "matches.json", "seeds.json", "standings.json"} :
            ~FileNamed(filename).exists =>
                /\ Finding("missing file", filename) \in
                      { v_errors[i] : i \in 1..Len(v_errors) }
                /\ \A i \in 1..Len(v_warnings) : v_warnings[i].about # filename

\* the part of C25 that holds: the "missing file" error for every absent file
C25_AbsentFileIsError ==
    v_pc = "returned" =>
        \A filename \in {"attr.json", "matches.json", "seeds.json", "standings.json"} :
            ~FileNamed(filename).exists =>
                Finding("missing file", filename) \in { v_errors[i] : i \in 1..Len(v_errors) }

\* C26 (the claim as stated): validate_event_dir raises for no contents of
\* the files; it returns its findings.
C26_ValidationNeverRaises ==
    /\ v_pc # "raised"
    /\ v_exit.by # "exception"

\* C27: when main returns, the exit code is 1 if an error was found, else 1
\* if --strict is set and a warning was found, else 0.
C27_ValidateExitCode ==
    (v_pc = "exited" /\ v_exit.by = "returned") =>
        /\ v_exit.code \in {0, 1}
        /\ v_errors # <<>> => v_exit.code = 1
        /\ v_errors = <<>> =>
              (v_exit.code = 1 <=> (v_args.strict /\ v_warnings # <<>>))

\* C27 witness: warnings and no error under --strict, exit code 1
C27_Witness ==
    /\ v_pc = "exited"
    /\ v_exit = [code |-> 1, by |-> "returned"]
    /\ v_args.strict
    /\ v_errors = <<>>
    /\ v_warnings # <<>>

\* C27 witness of the default mode: warnings and no error, exit code 0
C27_WitnessDefault ==
    /\ v_pc = "exited"
    /\ v_exit = [code |-> 0, by |-> "returned"]
    /\ ~v_args.strict
    /\ v_errors = <<>>
    /\ v_warnings # <<>>

(***************************************************************************)
(* Claims about the store-consistency tools (checked under SpecClean)      *)
(***************************************************************************)
\* the event survives: it has a path, the directory of the path exists and
\* holds every required file
Survives(event) ==
    /\ event.path # None
    /\ c_disk[event.path].is_dir
    /\ {"attr.json", "matches.json", "standings.json", "seeds.json"}
          \subseteq c_disk[event.path].files
SurvivingEvents(entry) ==
    IF entry.events_is_list THEN SelectSeq(entry.events, Survives) ELSE <<>>

\* C28: clean_tournaments returns, in the order of the file, exactly the
\* tournaments with at least one surviving event, each with its events
\* reduced to the surviving ones in their order; a tournament without a
\* surviving event is not in the result.
C28_CleanKeepsSurvivors ==
    (c_pc = "done" /\ c_tool = "clean") =>
        LET kept == SelectSeq(c_before, LAMBDA entry : SurvivingEvents(entry) # <<>>)
        IN  /\ Len(c_result) = Len(kept)
            /\ \A i \in 1..Len(kept) :
                  /\ c_result[i].tournament_id = kept[i].tournament_id
                  /\ c_result[i].events_is_list
                  /\ c_result[i].events = SurvivingEvents(kept[i])
                  /\ c_result[i].events # <<>>

\* C28 witness: of two tournaments the first lost all its events and is gone,
\* the second kept one of its events
C28_Witness ==
    /\ c_pc = "done" /\ c_tool = "clean"
    /\ Len(c_before) = 2
    /\ c_before[1].events = <<EventAt1>>
    /\ c_before[2].events = <<EventAt1, EventNoPath, EventAt2>>
    /\ c_disk["p1"] = NoSeeds
    /\ c_result = <<TournamentRecord(2, TRUE, <<EventAt2>>)>>

\* C28 witness of the order: both events of a tournament survive, in their
\* order in the file
C28_WitnessOrder ==
    /\ c_pc = "done" /\ c_tool = "clean"
    /\ Len(c_before) = 1
    /\ c_before[1].events = <<EventAt2, EventAt1>>
    /\ c_result = c_before

\* C29 (the claim as stated): a tool run with --dry-run computes its changes,
\* reports them and leaves tournaments.jsonl as it was; without --dry-run the
\* cleanup tool rewrites the file only when the cleaned list differs from the
\* loaded one.
C29_DryRunReportsAndKeepsFile ==
    c_pc = "done" =>
        /\ c_args.dry_run => (~c_wrote /\ c_file = c_before)
        /\ (c_args.dry_run /\ c_result # c_before) => c_report # <<>>
        /\ (c_tool = "clean" /\ c_wrote) => c_result # c_before

\* the part of C29 that holds: with --dry-run no tool reaches its write and
\* the file stays as it was; the cleanup tool reaches its write only when the
\* cleaned list differs from the loaded one
C29_DryRunWritesNothing ==
    c_pc = "done" =>
        /\ c_args.dry_run => (~c_wrote /\ c_file = c_before)
        /\ ~c_wrote => c_file = c_before
        /\ (c_tool = "clean" /\ c_wrote) => c_result # c_before

\* a dry run of the cleanup computed a cleaned list other than the loaded
\* one, reported it and left the file
C29_DryRunReached ==
    /\ c_pc = "done" /\ c_tool = "clean"
    /\ c_args.dry_run
    /\ c_result # c_before
    /\ c_report # <<>>
    /\ c_file = c_before

\* a dry run of the check with --apply found an addition and left the file
C29_DryRunOfCheckReached ==
    /\ c_pc = "done" /\ c_tool = "check"
    /\ c_args.dry_run /\ c_args.apply /\ c_args.token
    /\ c_result # c_before
    /\ c_report # <<>>
    /\ c_file = c_before

\* without --dry-run the cleanup wrote the cleaned list
C29_RewriteReached ==
    /\ c_pc = "done" /\ c_tool = "clean"
    /\ ~c_args.dry_run
    /\ c_wrote
    /\ c_file = c_result
    /\ c_file # c_before

(***************************************************************************)
(* Claims about the user refresh (checked under SpecRefresh)                *)
(***************************************************************************)

\* the line of users.jsonl that holds the user
LineOf(file, user_id) == CHOOSE i \in 1..Len(file) : file[i].user_id = user_id

\* the remote answered null for the user of the i-th attempt
AnsweredNull(i) == g_log[i].shape \in NotFoundShapes

\* C30: when the remote returns null for a requested user, no further
\* attempt is made for that user, the user is not counted among the failures,
\* and the output holds the user's record as users.jsonl held it
C30_NotFoundKeepsRecord ==
    \A i \in 1..Len(g_log) :
        AnsweredNull(i) =>
            LET user_id == g_log[i].user_id IN
            /\ \A j \in (i + 1)..Len(g_log) : g_log[j].user_id # user_id
            /\ user_id \notin g_failures
            /\ user_id \in g_missing
            /\ g_wrote => g_out[LineOf(g_file, user_id)] = g_file[LineOf(g_file, user_id)]

\* C30 witness: the run wrote its output after the remote answered null for
\* one user and a changed record for another
C30_Witness ==
    /\ g_pc = "done" /\ g_wrote
    /\ \E i \in 1..Len(g_log) : g_log[i].shape = "user null"
    /\ g_out # g_file

\* C30 witness: the null came at the second request for the user, after a
\* reply of 429 that was retried, and another user is among the failures
C30_WitnessAfterRateLimit ==
    /\ g_pc = "done" /\ g_wrote
    /\ \E i \in 2..Len(g_log) :
          /\ AnsweredNull(i)
          /\ g_log[i - 1].user_id = g_log[i].user_id
          /\ g_log[i - 1].shape = "429 Too Many Requests"
          /\ g_log[i - 1].outcome = "retried"
    /\ g_failures # {}

\* the remote's reply to the i-th request was a rate limit
RateLimited(i) == g_log[i].shape = "429 Too Many Requests"

\* the number of consecutive rate-limit replies that end with the i-th
ConsecutiveAt(i) ==
    CHOOSE k \in 1..i :
        /\ \A j \in (i - k + 1)..i : RateLimited(j)
        /\ k = i \/ ~RateLimited(i - k)

\* C31 (as stated): a rate-limited reply during a user refresh is followed by
\* the escalating backoff, retry_delay times the number of consecutive
\* rate-limit replies and at least 10 seconds
C31_RateLimitBacksOff ==
    \A i \in 1..Len(g_log) :
        RateLimited(i) => g_log[i].slept = Backoff(g_args, ConsecutiveAt(i))

\* C31 (what the code does): a rate-limited reply is retried inside
\* fetch_data_with_retries after the flat retry delay, or ends the call with
\* the exception that fails the user; consecutive_rate_limits stays zero
C31_RateLimitSleepsFlat ==
    /\ g_loop.consecutive_rate_limits = 0
    /\ \A i \in 1..Len(g_log) :
          RateLimited(i) =>
              /\ g_log[i].slept = g_args.retry_delay
              /\ g_log[i].outcome \in {"retried", "Exception"}

\* C31: two rate-limit replies in a row were met and the run went on
C31_RateLimitedTwice ==
    /\ g_pc = "done"
    /\ \E i \in 2..Len(g_log) : RateLimited(i) /\ ConsecutiveAt(i) = 2

\* target_user_ids of the run at hand, as a set
Targeted == { g_windows[Len(g_windows)][i] : i \in 1..Len(g_windows[Len(g_windows)]) }

\* the users of the input log that the run did not target, or failed to refresh
Untouched == { u \in DOMAIN g_users : u \notin Targeted \/ u \in g_failures }

\* the output log holds the ids of the input log in its order, with the
\* user_id and player_id of every record as they were
SameIdsInOrder ==
    /\ Len(g_out) = Len(g_file)
    /\ \A i \in 1..Len(g_file) :
          /\ g_out[i].user_id = g_file[i].user_id
          /\ g_out[i].player_id = g_file[i].player_id

\* C36 (as stated): the output log of a refresh run holds exactly the user
\* ids of the input log in the input order, every user that was not targeted
\* or whose refresh failed keeps exactly its previous record, and no user_id
\* or player_id is changed
C36_RefreshFrameStated ==
    g_wrote =>
        /\ SameIdsInOrder
        /\ \A i \in 1..Len(g_file) :
              g_file[i].user_id \in Untouched => g_out[i] = g_file[i]

\* C36 (amended): as stated, except that a user the checkpoint holds a record
\* of gets that record, targeted or not
C36_RefreshFrame ==
    g_wrote =>
        /\ SameIdsInOrder
        /\ \A i \in 1..Len(g_file) :
              LET u == g_file[i].user_id IN
              u \in Untouched =>
                  g_out[i] = IF u \in DOMAIN g_checkpoint_records
                             THEN WithVersion(g_checkpoint_records[u])
                             ELSE g_file[i]

\* C36 witness: the run wrote its output with one user refreshed, another
\* failed, and the input of two or more users
C36_Witness ==
    /\ g_wrote
    /\ Len(g_file) >= 2
    /\ g_failures # {}
    /\ g_out # g_file
    /\ g_checkpoint_records = EmptyDict

\* C36 witness: a user outside the window got the record of the checkpoint
C36_WitnessCheckpoint ==
    /\ g_wrote
    /\ \E i \in 1..Len(g_file) :
          /\ g_file[i].user_id \notin Targeted
          /\ g_file[i].user_id \in DOMAIN g_checkpoint_records
          /\ g_out[i] # g_file[i]

\* the place of a user in user_order
PlaceOf(user_id) == CHOOSE i \in 1..Len(g_file) : g_file[i].user_id = user_id

\* min(k, N) and ceil(N / k)
WindowSize == IF g_args.max_users < Len(g_file) THEN g_args.max_users ELSE Len(g_file)
RunsToCover == (Len(g_file) + g_args.max_users - 1) \div g_args.max_users

\* the i-th window is min(k, N) users in a row of user_order, modulo N
IsWindow(w) ==
    /\ Len(w) = WindowSize
    /\ \A i \in 1..(Len(w) - 1) : PlaceOf(w[i + 1]) = (PlaceOf(w[i]) % Len(g_file)) + 1

\* C38: with a cursor file and max_users = k > 0, every run targets min(k, N)
\* users in a row modulo N, the next run begins where the one before ended,
\* the cursor written is (start + min(k, N)) mod N, and any ceil(N / k) runs
\* in a row target every user
C38_CursorWindows ==
    (g_args.cursor_path /\ g_args.max_users > 0 /\ g_windows # <<>>) =>
        /\ \A r \in 1..Len(g_windows) : IsWindow(g_windows[r])
        /\ \A r \in 1..(Len(g_windows) - 1) :
              PlaceOf(g_windows[r + 1][1]) =
                  (PlaceOf(g_windows[r][WindowSize]) % Len(g_file)) + 1
        /\ g_wrote =>
              /\ g_cursor.exists /\ g_cursor.valid
              /\ g_cursor.value =
                    ((PlaceOf(g_windows[Len(g_windows)][1]) - 1) + WindowSize) % Len(g_file)
        /\ \A r \in 1..(Len(g_windows) - RunsToCover + 1) :
              \A u \in DOMAIN g_users :
                  \E q \in r..(r + RunsToCover - 1) :
                      \E i \in 1..Len(g_windows[q]) : g_windows[q][i] = u

\* C38 witness: two runs with k = 1 over two or more users have targeted two
\* users, the first run beginning at the index a cursor file held
C38_Witness ==
    /\ g_args.cursor_path /\ g_args.max_users = 1
    /\ Len(g_file) >= 2
    /\ Len(g_windows) >= 2
    /\ g_windows[1] # g_windows[2]
    /\ PlaceOf(g_windows[1][1]) = 2
    /\ g_wrote

(***************************************************************************)
(* Claims about the social handles (checked under SpecAuth)                 *)
(***************************************************************************)

\* the entries of the list read that are of the provider, in order
OfProvider(provider) ==
    SelectSeq(a_authorizations.list, LAMBDA auth : auth.type = provider)

\* the handle fields stored are those of the provider's entry
StoredFrom(twitter, discord) ==
    /\ a_stored.x_id = twitter.externalId
    /\ a_stored.x_name = twitter.externalUsername
    /\ a_stored.discord_id = discord.externalId
    /\ a_stored.discord_name = discord.externalUsername

NoEntry == [type |-> "none", externalId |-> "None", externalUsername |-> "None"]
FirstEntry(entries) == IF entries = <<>> THEN NoEntry ELSE Head(entries)
LastEntry(entries) == IF entries = <<>> THEN NoEntry ELSE entries[Len(entries)]

\* C35 (as stated): the social-handle fields stored for a provider are taken
\* from the first entry of that provider in the authorization list
C35_FirstMatchWins ==
    a_pc = "out" => StoredFrom(FirstEntry(OfProvider("TWITTER")), FirstEntry(OfProvider("DISCORD")))

\* C35 (what the code does): the fields stored for a provider are those of
\* the last entry of that provider
C35_LastMatchWins ==
    a_pc = "out" => StoredFrom(LastEntry(OfProvider("TWITTER")), LastEntry(OfProvider("DISCORD")))

\* C35: a list with two entries of one provider that differ has been read
C35_TwoOfOneProvider ==
    /\ a_pc = "out"
    /\ Len(OfProvider("TWITTER")) = 2
    /\ FirstEntry(OfProvider("TWITTER")) # LastEntry(OfProvider("TWITTER"))

(***************************************************************************)
(* Claims about the sets that are not persisted (checked under SpecMatches) *)
(***************************************************************************)

\* the slot lacks its entrant, its standing, or the score data of its standing
Lacking(slot) ==
    \/ slot.entrant = None
    \/ ~slot.standing.present
    \/ slot.standing.lacks # "none"

\* the sets the claim has dropped
Dropped(node) ==
    \/ ~node.slots.present
    \/ Len(node.slots.list) # 2
    \/ Lacking(node.slots.list[1])
    \/ Lacking(node.slots.list[2])

\* matches.json holds the matches of the sets that are not dropped, in order
OthersPersisted ==
    LET kept == SelectSeq(m_nodes, LAMBDA node : ~Dropped(node)) IN
    /\ m_pc = "written"
    /\ matches_json = [i \in 1..Len(kept) |-> match_data(kept[i])]

\* C34 (as stated): a set with a slot count other than two, or with a slot
\* that lacks its entrant, its standing or its score data, is absent from
\* matches.json, no exception is raised, and every other set is persisted
C34_DroppedSilently ==
    m_pc # "fetched" => OthersPersisted

\* C34 (what the code does): that holds when every standing of the sets with
\* two slots and two entrants has its stats and its score; a standing without
\* them makes write_matches raise, and no matches.json is written
C34_DroppedOrRaised ==
    m_pc # "fetched" =>
        IF \E i \in 1..Len(m_nodes) :
               /\ m_nodes[i].slots.present
               /\ Len(m_nodes[i].slots.list) = 2
               /\ \A j \in 1..2 : /\ m_nodes[i].slots.list[j].entrant # None
                                  /\ m_nodes[i].slots.list[j].standing.present
               /\ \E j \in 1..2 : m_nodes[i].slots.list[j].standing.lacks # "none"
        THEN m_pc = "raised" /\ matches_json = <<>>
        ELSE OthersPersisted

\* C34: a set whose second slot has no standing was dropped between two sets
\* that were persisted
C34_DroppedBetween ==
    /\ m_pc = "written"
    /\ Len(m_nodes) = 3
    /\ m_nodes[2].slots.present /\ Len(m_nodes[2].slots.list) = 2
    /\ ~m_nodes[2].slots.list[2].standing.present
    /\ Len(matches_json) = 2

\* C34: a set whose standing has no stats made write_matches raise, with a
\* set before it that would have been persisted
C34_RaisedReached ==
    /\ m_pc = "raised"
    /\ Len(m_nodes) = 2
    /\ m_nodes[1] = OtherNode
    /\ m_nodes[2].slots.list[1].standing = NoStats

(***************************************************************************)
(* Claims about the change report of the cleanup (checked under SpecClean)  *)
(***************************************************************************)

\* the tournament of the input is absent from the cleaned output
Removed(entry) ==
    \A i \in 1..Len(c_result) : c_result[i].tournament_id # entry.tournament_id

\* a report line names the removal of the tournament
RemovalReported(entry) ==
    \E i \in 1..Len(c_report) :
        /\ c_report[i].tournament_id = entry.tournament_id
        /\ c_report[i].kind \in {"DROP", "Skipped"}

\* C39 (as stated): for every tournament of the input that is absent from
\* the cleaned output, a report line names its removal
C39_RemovalsReported ==
    (c_pc = "done" /\ c_tool = "clean") =>
        \A i \in 1..Len(c_before) :
            Removed(c_before[i]) => RemovalReported(c_before[i])

\* C39 (what the code does): that holds for the tournaments whose events is
\* no list or a list with an event in it; a tournament with an empty events
\* list is removed without a line
C39_RemovalsReportedUnlessEmpty ==
    (c_pc = "done" /\ c_tool = "clean") =>
        \A i \in 1..Len(c_before) :
            LET entry == c_before[i] IN
            /\ Removed(entry) =>
                  (RemovalReported(entry) <=> ~(entry.events_is_list /\ entry.events = <<>>))
            /\ (entry.events_is_list /\ entry.events = <<>>) => Removed(entry)

\* C39: the cleanup rewrote the file without a tournament that no report
\* line names, next to a tournament whose removal is reported
C39_SilentRemovalReached ==
    /\ c_pc = "done" /\ c_tool = "clean" /\ c_wrote
    /\ \E i, j \in 1..Len(c_before) :
          /\ Removed(c_before[i]) /\ ~RemovalReported(c_before[i])
          /\ Removed(c_before[j]) /\ RemovalReported(c_before[j])

(***************************************************************************)
(* Claims about the tournaments log of the download (checked under Spec)    *)
(***************************************************************************)

\* download_all_tournaments returns with a rewrite pending: an event was
\* appended in this run to a tournament the log already held
ReturnsWithRewritePending(causes) ==
    /\ mem.tool = "download"
    /\ mem.rewrite_tournaments
    /\ mem'.tool = "none"
    /\ last_exit'.cause \in causes

\* C32 (as stated): when a download run has appended a new event to a
\* tournament that already existed on disk, the tournaments log is rewritten
\* from the in-memory map on every path by which download_all_tournaments
\* returns: the last page, an empty page, a tournament older than finish_date
C32_RewriteOnEveryReturn ==
    [][ ReturnsWithRewritePending({"returned", "returned_early"}) =>
            tournaments_file' = write_jsonl(mem.tournaments) ]_vars

\* C32 (what the code does): the log is rewritten when the listing loop is
\* left by a break; the return at a tournament older than finish_date leaves
\* the log as it was
C32_RewriteAtLoopEnd ==
    [][ /\ ReturnsWithRewritePending({"returned"}) =>
            tournaments_file' = write_jsonl(mem.tournaments)
        /\ ReturnsWithRewritePending({"returned_early"}) =>
            tournaments_file' = tournaments_file ]_vars

\* C32: the run returned at a tournament older than finish_date after it had
\* written event 2 and marked tournament 1 done, and the log, which held
\* tournament 1 before, does not hold event 2
C32_LostRewriteReached ==
    /\ last_exit.tool = "download"
    /\ last_exit.cause = "returned_early"
    /\ \E i \in 1..Len(done_file) : done_file[i] = 1
    /\ REQUIRED_EVENT_FILES \subseteq event_files[2]
    /\ \E i \in 1..Len(tournaments_file) :
          /\ tournaments_file[i].tournament_id = 1
          /\ ~InList(tournaments_file[i].events, 2)

\* C33 (as stated): the tournaments log holds at most one record per
\* tournament id, after any sequence of download and repair runs
C33_OneRecordPerTournament ==
    \A i, j \in 1..Len(tournaments_file) :
        tournaments_file[i].tournament_id = tournaments_file[j].tournament_id => i = j

\* C33 (what the code does): a download run appends the record of a
\* tournament it ingests whenever no rewrite is pending, whether or not the
\* log held a record of the tournament when the run began
C33_AppendUnlessRewritePending ==
    [][ (mem.tool = "download" /\ mem.pc = "persist"
            /\ Len(Get(mem.tournaments, mem.tournament_id)) > 0
            /\ ~mem.rewrite_tournaments /\ mem'.tool = "download") =>
            tournaments_file' =
                Append(tournaments_file,
                       [tournament_id |-> mem.tournament_id,
                        events |-> Get(mem.tournaments, mem.tournament_id)]) ]_vars

\* C33: a second download run ingested tournament 1 again with no new event,
\* and the log holds two records of tournament 1
C33_SecondRecordReached ==
    /\ runs = 2
    /\ mem.tool = "download"
    /\ 1 \in mem.existing_tournament_ids
    /\ ~mem.rewrite_tournaments
    /\ Len(tournaments_file) = 2
    /\ tournaments_file[1] = tournaments_file[2]
    /\ tournaments_file[1].tournament_id = 1

\* a step taken at the head of the listing loop of download_all_tournaments
AtListing == mem.tool = "download" /\ mem.pc = "list"

\* the step left the head of the loop: into the body of the loop, whose last
\* statement advances the page or breaks, or out of the loop
LeftListing == mem'.tool # "download" \/ mem'.pc # "list"

\* the step came back to the head of the loop from the body
BackToListing == mem.tool = "download" /\ mem.pc # "list" /\ mem'.tool = "download" /\ mem'.pc = "list"

\* C37 (as stated): every iteration of the listing loop advances to the next
\* page or ends the loop, a malformed listing response included
C37_ListingAdvancesOrEnds ==
    [][ /\ AtListing => LeftListing
        /\ BackToListing => mem'.page = mem.page + 1 ]_vars

\* C37 (what the code does): an iteration advances the page or ends the loop
\* unless the listing request raised FetchError; then the loop requests the
\* same page again
C37_ListingRepeatsOnFetchError ==
    [][ /\ AtListing =>
            \/ LeftListing
            \/ /\ note'.kind = "listing FetchError"
               /\ mem' = mem
        /\ BackToListing => mem'.page = mem.page + 1 ]_vars

\* C37: the listing request of the second page raised FetchError and the
\* loop stands at its head with the same page
C37_SamePageAgainReached ==
    /\ AtListing
    /\ mem.page = 2
    /\ note.kind = "listing FetchError"

====
